---- MODULE Spec2Model ----
(***************************************************************************)
(* Verification model of the DDON-translation tool scripts.                *)
(*                                                                         *)
(* Part 1: Tools/Duplicate remover.py (the Duplicate Resolver).            *)
(* A CSV file is held as the sequence of rows that csv.reader yields; a    *)
(* row is a sequence of cells; a cell is a sequence of one-character       *)
(* strings, so that str.strip() is computed and not assumed.               *)
(* Python indices are 0-based: col(row, i) is row[i].                      *)
(* A load may raise (main catches it and goes on); write_csv_file is       *)
(* taken on its successful path.  The definitions marked "faulty variant"  *)
(* are not part of the scripts: each is the definition that follows it     *)
(* with one plausible slip, kept to show that a property depends on it.    *)
(*                                                                         *)
(* Part 2: Tools/Tag Fixer.py (fix_broken_tags, process_csv, main).        *)
(* Part 3: Tools/SpeakerFiller.py (process_single_csv).                    *)
(* Part 4: Tools/hellish-filler.py (process_prefix, update_csv_files,       *)
(* write_unmatched, main).  What parse_sections extracts from a section    *)
(* of the TXT file (identifier, read index, English text, or nothing when  *)
(* the section is passed over) is an input; reads and writes of files are  *)
(* taken on their successful path.                                         *)
(* Part 5: English/generate_gmd.py (merge_splits).                         *)
(* Part 6: Tools/SpeakerFiller.py (CSVProcessorApp): the main thread runs  *)
(* the button commands, the timer callbacks and poll_ui_queue one at a     *)
(* time; each worker thread runs process_all_files, of which every put on  *)
(* the queue is a step of its own that other threads may interleave with.  *)
(* Of process_single_csv (part 3) only the first and the last message are  *)
(* kept here.                                                              *)
(* Each script has its own variables and its own specification; the        *)
(* variables of the scripts that are not run stay at their idle values.    *)
(***************************************************************************)
EXTENDS Integers, Sequences, FiniteSets, TLC

VARIABLES
    disk,           \* file path -> rows of the CSV file as stored on disk
    csv_files,      \* main: the list returned by get_csv_files (walk order)
    pc,             \* position of main: load, analyze, delete, mismatch, done
    pos,            \* index (1-based) of the current loop iteration of main
    file_data,      \* main: insertion-ordered dict file path -> rows
    deletion_set,   \* main: set of <<file, row_index>> marked for deletion
    mismatch_log,   \* main: list of mismatch entries
    mismatch_file,  \* contents of mismatches.txt (<<>> while never written)
    run,            \* "first" or "second" run of the script on the folder
    disk0,          \* history: disk when the current run started
    failed,         \* history: files whose load raised in the current run
    written,        \* history: files written back in the current run
    loaded,         \* history: file_data as it was when analysis started
    prev_loaded     \* history: files the previous run had loaded

\* Part 2: Tools/Tag Fixer.py, one call of fix_broken_tags
VARIABLES
    text_in,        \* fix_broken_tags: the argument text
    lines_now,      \* fix_broken_tags: the local list lines
    i_now,          \* fix_broken_tags: the local index i (0-based)
    modified_now,   \* fix_broken_tags: the local flag modified
    returned,       \* the returned pair (<<>> until the call returns)
    fixes,          \* history: number of iterations that moved a fragment
    tag_pc          \* position in the call: idle, call, scan, returned

\* Part 2: Tools/Tag Fixer.py, one run of main over its file arguments
VARIABLES
    main_pc,        \* position of main: idle, start, loop, done, exit
    argv,           \* sys.argv[1:], the file arguments
    arg_pos,        \* index (1-based) of the current iteration of main
    tag_disk,       \* file path -> rows of the CSV file, or NoFile
    results,        \* contents of results.txt, a list of entries
    tag_disk0,      \* history: tag_disk when the run started
    unreadable,     \* history: indices into argv of the reads that raised
    rewritten       \* history: list of the files written back

\* Part 3: Tools/SpeakerFiller.py, one call of process_single_csv
VARIABLES
    spk_pc,         \* position in the call: idle, read, normal, fallback_json,
                    \* fallback, write, done
    spk_disk,       \* rows of the CSV file csv_file as stored on disk
    spk_rows,       \* process_single_csv: the local list rows
    spk_mode,       \* process_single_csv: the local mode ("" until it is set)
    spk_i,          \* the loop index: i in normal mode, j in fallback mode
    json_index,     \* json_index: the JSON file names found in the archive
    json_loads,     \* whether json.load of an indexed file succeeds
    json_content,   \* what json.load returns for an indexed file
    json_data_now,  \* process_single_csv: the local json_data (fallback mode)
    json_cache,     \* process_single_csv: the file names held by json_cache
    ui_queue,       \* the messages put on ui_queue, oldest first
    spk_read        \* history: rows as they were read from the file

\* Part 4: Tools/hellish-filler.py, one run of main
VARIABLES
    hf_pc,          \* position of main: idle, parse, update, unmatched, done
    global_remove_prefixes, \* the module-level flag: "None", "True", "False"
    hf_txt_in,      \* the sections of the TXT file as parse_sections reads them
    hf_k,           \* parse_sections: number of sections gone through
    hf_sections,    \* the list of parsed sections (dicts)
    hf_disk,        \* file path -> rows of the CSV file as stored on disk
    hf_file,        \* update_csv_files: index (1-based) of the current file
    hf_rows,        \* update_csv_files: the local list rows
    hf_row,         \* update_csv_files: index (1-based) of the current row
    hf_updated,     \* update_csv_files: the local flag updated
    hf_txt,         \* the TXT file as rewritten (<<>> while never written)
    hf_prompts,     \* history: number of times askyesno was shown
    hf_applied      \* history: <<section index, file, row index>> per update

\* Part 5: English/generate_gmd.py, one call of merge_splits
VARIABLES
    gmd_pc,         \* position of merge_splits: idle, loop, closed
    gmd_splits,     \* the sorted split files: the rows safe_read_text returns
    gmd_k,          \* index (1-based) of the current iteration over splits
    gmd_buffered,   \* rows written to f that are still in its buffer
    gmd_out,        \* the rows of gmd.csv as stored on disk
    written_entries, \* merge_splits: the local counter
    gmd_writes,     \* history: indices of the splits written, in order
    gmd_warned      \* history: indices of the splits with a reported mismatch

\* Part 6: Tools/SpeakerFiller.py, the CSVProcessorApp window
VARIABLES
    process_button, \* state of the Run button: "normal" or "disabled"
    app_csv_files,  \* self.csv_files
    archive_dir,    \* whether self.archive_dir is set
    workers,        \* the threads started so far: position, the list that
                    \* is iterated, the loop index, the files done
    pending_after,  \* number of callbacks scheduled by master.after(0, ...)
    app_queue,      \* self.ui_queue, oldest message first
    widget_log,     \* history: the messages poll_ui_queue showed in the widgets
    direct_logs,    \* history: number of lines a button command wrote with
                    \* self.log, not by way of the queue
    enqueued,       \* history: the messages put on self.ui_queue, in order
    selections      \* history: number of selection dialogs confirmed

dup_vars == <<disk, csv_files, pc, pos, file_data, deletion_set, mismatch_log,
              mismatch_file, run, disk0, failed, written, loaded, prev_loaded>>

fix_vars == <<text_in, lines_now, i_now, modified_now, returned, fixes, tag_pc>>

main_vars == <<main_pc, argv, arg_pos, tag_disk, results, tag_disk0, unreadable, rewritten>>

spk_vars == <<spk_pc, spk_disk, spk_rows, spk_mode, spk_i, json_index, json_loads,
              json_content, json_data_now, json_cache, ui_queue, spk_read>>

hf_vars == <<hf_pc, global_remove_prefixes, hf_txt_in, hf_k, hf_sections, hf_disk,
             hf_file, hf_rows, hf_row, hf_updated, hf_txt, hf_prompts, hf_applied>>

gmd_vars == <<gmd_pc, gmd_splits, gmd_k, gmd_buffered, gmd_out, written_entries,
              gmd_writes, gmd_warned>>

gui_vars == <<process_button, app_csv_files, archive_dir, workers, pending_after,
              app_queue, widget_log, direct_logs, enqueued, selections>>

\* the variables of parts 4 and later
ext_vars == <<hf_vars, gmd_vars, gui_vars>>

vars == <<dup_vars, fix_vars, main_vars, spk_vars, ext_vars>>

\* what the Duplicate Resolver never touches
not_dup_vars == <<fix_vars, main_vars, spk_vars, ext_vars>>

\* what a call of fix_broken_tags never touches
not_fix_vars == <<dup_vars, main_vars, spk_vars, ext_vars>>

\* what Tag Fixer's main never touches
not_main_vars == <<dup_vars, fix_vars, spk_vars, ext_vars>>

\* what a call of process_single_csv never touches
not_spk_vars == <<dup_vars, fix_vars, main_vars, ext_vars>>

\* what hellish-filler never touches
not_hf_vars == <<dup_vars, fix_vars, main_vars, spk_vars, gmd_vars, gui_vars>>

\* what merge_splits never touches
not_gmd_vars == <<dup_vars, fix_vars, main_vars, spk_vars, hf_vars, gui_vars>>

\* what the CSVProcessorApp window and its worker threads never touch
not_gui_vars == <<dup_vars, fix_vars, main_vars, spk_vars, hf_vars, gmd_vars>>

----------------------------------------------------------------------------
(* Bounds and the input universe *)

MaxTotalRows == 3

Files == {"A.csv", "B.csv"}

Whitespace == {" "}

empty_cell == <<>>

\* key K, whitespace-only translation, context x
RowE == << <<"k">>, empty_cell, empty_cell, <<" ">>, empty_cell, empty_cell, <<"x">> >>
\* key K, translation "a"
RowA == << <<"k">>, empty_cell, empty_cell, <<"a">>, empty_cell, empty_cell, <<"x">> >>
\* key K after trimming, translation "b" after trimming
RowB == << <<" ", "k">>, empty_cell, empty_cell, <<"b", " ">>, empty_cell, empty_cell, <<"x", " ">> >>
\* another key, empty translation, same context value x
RowN == << <<"m">>, empty_cell, empty_cell, empty_cell, empty_cell, empty_cell, <<"x">> >>
\* another key, another context value
RowY == << <<"m">>, empty_cell, empty_cell, <<"a">>, empty_cell, empty_cell, <<"y">> >>
\* a row of six columns
RowS == << <<"k">>, empty_cell, empty_cell, <<"a">>, empty_cell, empty_cell >>

RowPool == {RowE, RowA, RowB, RowN, RowY, RowS}

\* the key and context of RowY with another translation
RowZ == << <<"m">>, empty_cell, empty_cell, <<"b">>, empty_cell, empty_cell, <<"y">> >>

\* rows of two keys, each key with two differing translations
GroupRowPool == {RowE, RowA, RowB, RowY, RowZ}

MaxGroupRows == 4

RECURSIVE SeqsOfLen(_, _)
SeqsOfLen(S, n) ==
    IF n = 0 THEN {<<>>}
    ELSE {Append(s, x) : s \in SeqsOfLen(S, n - 1), x \in S}

SeqsUpTo(S, n) == UNION {SeqsOfLen(S, k) : k \in 0..n}

\* every enumeration order of every subset of the files
Orders ==
    {o \in SeqsUpTo(Files, Cardinality(Files)) :
        \A i, j \in 1..Len(o) : i # j => o[i] # o[j]}

InSeq(s) == {s[i] : i \in 1..Len(s)}

----------------------------------------------------------------------------
(* Helpers of the Duplicate Resolver *)

col(row, i) == row[i + 1]

RECURSIVE lstrip(_)
lstrip(s) ==
    IF s = <<>> THEN s
    ELSE IF Head(s) \in Whitespace THEN lstrip(Tail(s)) ELSE s

RECURSIVE rstrip(_)
rstrip(s) ==
    IF s = <<>> THEN s
    ELSE IF s[Len(s)] \in Whitespace THEN rstrip(SubSeq(s, 1, Len(s) - 1)) ELSE s

strip(s) == rstrip(lstrip(s))

\* faulty variant: rows without a translation are dropped while loading
load_csv_file_drops_untranslated(rows_on_disk) ==
    SelectSeq(rows_on_disk, LAMBDA row : Len(row) > 3 /\ strip(col(row, 3)) # <<>>)

load_csv_file(rows_on_disk) == rows_on_disk

\* faulty variant: the cells are written trimmed
write_csv_file_trimmed(rows) ==
    [n \in 1..Len(rows) |-> [c \in 1..Len(rows[n]) |-> strip(rows[n][c])]]

write_csv_file(rows) == rows

\* file_data is an insertion-ordered dict: a sequence of [file, rows]
dict_keys(fd) == {fd[n].file : n \in 1..Len(fd)}

dict_get(fd, f) == (CHOOSE n \in 1..Len(fd) : fd[n].file = f)

rows_of(fd, f) == fd[dict_get(fd, f)].rows

\* faulty variant: the translation column is part of the key
duplicate_key_all_columns(row) == [j \in 1..Len(row) |-> strip(row[j])]

duplicate_key(row) ==
    LET kept == SelectSeq([j \in 1..Len(row) |-> j - 1], LAMBDA i : i # 3)
    IN  [j \in 1..Len(kept) |-> strip(col(row, kept[j]))]

\* faulty variant: no index - 1 >= 0 test, file_rows[-1] is the last row
compute_context_score_wraparound(file_rows, index, candidate_val) ==
    LET prev == IF index - 1 >= 0 THEN col(file_rows, index - 1)
                ELSE col(file_rows, Len(file_rows) - 1)
        s1 == IF Len(prev) > 6 /\ strip(col(prev, 6)) = candidate_val
              THEN 1 ELSE 0
        s2 == IF index + 1 < Len(file_rows)
                 /\ Len(col(file_rows, index + 1)) > 6
                 /\ strip(col(col(file_rows, index + 1), 6)) = candidate_val
              THEN 1 ELSE 0
    IN  s1 + s2

compute_context_score(file_rows, index, candidate_val) ==
    LET s1 == IF index - 1 >= 0
                 /\ Len(col(file_rows, index - 1)) > 6
                 /\ strip(col(col(file_rows, index - 1), 6)) = candidate_val
              THEN 1 ELSE 0
        s2 == IF index + 1 < Len(file_rows)
                 /\ Len(col(file_rows, index + 1)) > 6
                 /\ strip(col(col(file_rows, index + 1), 6)) = candidate_val
              THEN 1 ELSE 0
    IN  s1 + s2

----------------------------------------------------------------------------
(* analyze_duplicates *)

candidate(file, i, row) ==
    [file |-> file, row_index |-> i, row |-> row,
     col4 |-> IF Len(row) > 3 THEN strip(col(row, 3)) ELSE <<>>,
     col7 |-> IF Len(row) > 6 THEN strip(col(row, 6)) ELSE <<>>]

\* faulty variant: no len(row) < 7 test
row_candidates_unguarded(file, i, row) == <<candidate(file, i, row)>>

\* the candidates one row adds: none for a row of fewer than 7 columns
row_candidates(file, i, row) ==
    IF Len(row) < 7 THEN <<>> ELSE <<candidate(file, i, row)>>

\* dup_dict.setdefault(key, []).append(candidate); dup_dict keeps the
\* insertion order of its keys
setdefault_append(dup_dict, key, c) ==
    IF \E n \in 1..Len(dup_dict) : dup_dict[n].key = key
    THEN [n \in 1..Len(dup_dict) |->
            IF dup_dict[n].key = key
            THEN [dup_dict[n] EXCEPT !.cands = Append(@, c)]
            ELSE dup_dict[n]]
    ELSE Append(dup_dict, [key |-> key, cands |-> <<c>>])

RECURSIVE analyze_rows(_, _, _, _)
analyze_rows(dup_dict, file, rows, i) ==
    IF i >= Len(rows) THEN dup_dict
    ELSE LET cs == row_candidates(file, i, col(rows, i))
             d  == IF cs = <<>> THEN dup_dict
                   ELSE setdefault_append(dup_dict, duplicate_key(cs[1].row), cs[1])
         IN  analyze_rows(d, file, rows, i + 1)

RECURSIVE analyze_files(_, _, _)
analyze_files(dup_dict, fd, n) ==
    IF n > Len(fd) THEN dup_dict
    ELSE analyze_files(analyze_rows(dup_dict, fd[n].file, fd[n].rows, 0), fd, n + 1)

analyze_duplicates(fd) == analyze_files(<<>>, fd, 1)

----------------------------------------------------------------------------
(* resolve_group *)

non_empty(group) == SelectSeq(group, LAMBDA c : c.col4 # <<>>)

\* faulty variant: stage 1 left out
group_to_tiebreak_whole_group(group) == group

group_to_tiebreak(group) ==
    IF non_empty(group) # <<>> THEN non_empty(group) ELSE group

\* faulty variant: Row: {row_index}
mismatch_entry_zero_based_row(group) ==
    [header |-> "Mismatch in fourth column for duplicate group:",
     lines  |-> [n \in 1..Len(non_empty(group)) |->
                    [file |-> non_empty(group)[n].file,
                     row  |-> non_empty(group)[n].row_index,
                     col4 |-> non_empty(group)[n].col4]]]

\* the entry text, kept as its parts: one line per non-empty candidate
\* "  File: {file}, Row: {row_index+1}, col4: '{col4}'"
mismatch_entry(group) ==
    [header |-> "Mismatch in fourth column for duplicate group:",
     lines  |-> [n \in 1..Len(non_empty(group)) |->
                    [file |-> non_empty(group)[n].file,
                     row  |-> non_empty(group)[n].row_index + 1,
                     col4 |-> non_empty(group)[n].col4]]]

\* faulty variant: no test that the values differ
log_mismatch_whenever_non_empty(group, log) ==
    IF non_empty(group) # <<>>
    THEN Append(log, mismatch_entry(group))
    ELSE log

log_mismatch(group, log) ==
    IF non_empty(group) # <<>>
       /\ Cardinality({non_empty(group)[n].col4 : n \in 1..Len(non_empty(group))}) > 1
    THEN Append(log, mismatch_entry(group))
    ELSE log

\* faulty variant: the smallest row index wins whatever the scores
tiebreak_step_ignore_score(best, best_score, c, score) ==
    IF best = <<>> \/ c.row_index < best[1].row_index
    THEN [best |-> <<c>>, best_score |-> score]
    ELSE [best |-> best, best_score |-> best_score]

\* one iteration of the tie-break loop; best is <<>> (None) or <<candidate>>
tiebreak_step(best, best_score, c, score) ==
    IF score > best_score \/ (score = best_score /\ (best = <<>> \/ c.row_index < best[1].row_index))
    THEN [best |-> <<c>>, best_score |-> score]
    ELSE [best |-> best, best_score |-> best_score]

candidate_score(c, fd) ==
    compute_context_score(rows_of(fd, c.file), c.row_index, c.col7)

RECURSIVE tiebreak_loop(_, _, _, _)
tiebreak_loop(acc, cands, fd, n) ==
    IF n > Len(cands) THEN acc
    ELSE tiebreak_loop(
            tiebreak_step(acc.best, acc.best_score, cands[n], candidate_score(cands[n], fd)),
            cands, fd, n + 1)

best_candidate(group, fd) ==
    tiebreak_loop([best |-> <<>>, best_score |-> -1], group_to_tiebreak(group), fd, 1).best[1]

\* faulty variant: only the first other candidate is marked
to_delete_first_loser_only(group, best) ==
    LET losers == SelectSeq(group, LAMBDA c : c # best)
    IN  <<<<losers[1].file, losers[1].row_index>>>>

\* faulty variant: only the candidates of the tie-break are marked
to_delete_tiebreak_losers_only(group, best) ==
    LET losers == SelectSeq(group_to_tiebreak(group), LAMBDA c : c # best)
    IN  [n \in 1..Len(losers) |-> <<losers[n].file, losers[n].row_index>>]

to_delete(group, best) ==
    LET losers == SelectSeq(group, LAMBDA c : c # best)
    IN  [n \in 1..Len(losers) |-> <<losers[n].file, losers[n].row_index>>]

resolve_group(group, fd, log) ==
    LET best == best_candidate(group, fd)
    IN  [keep |-> best,
         to_delete |-> to_delete(group, best),
         mismatch_log |-> log_mismatch(group, log)]

----------------------------------------------------------------------------
(* process_all_duplicates *)

RECURSIVE resolve_groups(_, _, _, _)
resolve_groups(acc, dup_dict, fd, n) ==
    IF n > Len(dup_dict) THEN acc
    ELSE IF Len(dup_dict[n].cands) > 1
    THEN LET r == resolve_group(dup_dict[n].cands, fd, acc.mismatch_log)
         IN  resolve_groups(
                [deletion_set |-> acc.deletion_set \cup InSeq(r.to_delete),
                 mismatch_log |-> r.mismatch_log],
                dup_dict, fd, n + 1)
    ELSE resolve_groups(acc, dup_dict, fd, n + 1)

process_all_duplicates(fd) ==
    resolve_groups([deletion_set |-> {}, mismatch_log |-> <<>>],
                   analyze_duplicates(fd), fd, 1)

----------------------------------------------------------------------------
(* main: the run of the script over one folder *)

TotalRows(d) ==
    LET RECURSIVE Sum(_)
        Sum(S) == IF S = {} THEN 0
                  ELSE LET f == CHOOSE x \in S : TRUE
                       IN  Len(d[f]) + Sum(S \ {f})
    IN  Sum(DOMAIN d)

\* the state of a tool that is not run
DupIdle ==
    /\ csv_files = <<>>
    /\ disk = [f \in Files |-> <<>>]
    /\ pc = "idle"
    /\ pos = 1
    /\ file_data = <<>>
    /\ deletion_set = {}
    /\ mismatch_log = <<>>
    /\ mismatch_file = <<>>
    /\ run = "first"
    /\ disk0 = disk
    /\ failed = {}
    /\ written = {}
    /\ loaded = <<>>
    /\ prev_loaded = {}

FixIdle ==
    /\ text_in = <<>>
    /\ lines_now = <<>>
    /\ i_now = 0
    /\ modified_now = FALSE
    /\ returned = [text |-> <<>>, changed |-> FALSE]
    /\ fixes = 0
    /\ tag_pc = "idle"

MainIdle ==
    /\ main_pc = "idle"
    /\ argv = <<>>
    /\ arg_pos = 1
    /\ tag_disk = [f \in Files |-> [isfile |-> FALSE, rows |-> <<>>]]
    /\ results = <<>>
    /\ tag_disk0 = tag_disk
    /\ unreadable = {}
    /\ rewritten = <<>>

SpkIdle ==
    /\ spk_pc = "idle"
    /\ spk_disk = <<>>
    /\ spk_rows = <<>>
    /\ spk_mode = ""
    /\ spk_i = 0
    /\ json_index = {}
    /\ json_loads = FALSE
    /\ json_content = <<>>
    /\ json_data_now = <<>>
    /\ json_cache = {}
    /\ ui_queue = <<>>
    /\ spk_read = <<>>

HfFiles == <<"A.csv", "B.csv">>

HfIdle ==
    /\ hf_pc = "idle"
    /\ global_remove_prefixes = "None"
    /\ hf_txt_in = <<>>
    /\ hf_k = 0
    /\ hf_sections = <<>>
    /\ hf_disk = [f \in Files |-> <<>>]
    /\ hf_file = 1
    /\ hf_rows = <<>>
    /\ hf_row = 1
    /\ hf_updated = FALSE
    /\ hf_txt = <<>>
    /\ hf_prompts = 0
    /\ hf_applied = <<>>

GmdIdle ==
    /\ gmd_pc = "idle"
    /\ gmd_splits = <<>>
    /\ gmd_k = 1
    /\ gmd_buffered = <<>>
    /\ gmd_out = <<>>
    /\ written_entries = 0
    /\ gmd_writes = <<>>
    /\ gmd_warned = {}

GuiIdle ==
    /\ process_button = "normal"
    /\ app_csv_files = <<>>
    /\ archive_dir = FALSE
    /\ workers = <<>>
    /\ pending_after = 0
    /\ app_queue = <<>>
    /\ widget_log = <<>>
    /\ direct_logs = 0
    /\ enqueued = <<>>
    /\ selections = 0

ExtIdle == HfIdle /\ GmdIdle /\ GuiIdle

AllIdle == DupIdle /\ FixIdle /\ MainIdle /\ SpkIdle

Init ==
    /\ csv_files \in Orders
    /\ disk \in [Files -> SeqsUpTo(RowPool, MaxTotalRows)]
    /\ TotalRows(disk) <= MaxTotalRows
    /\ \A f \in Files \ InSeq(csv_files) : disk[f] = <<>>
    /\ pc = "start"
    /\ pos = 1
    /\ file_data = <<>>
    /\ deletion_set = {}
    /\ mismatch_log = <<>>
    /\ mismatch_file = <<>>
    /\ run = "first"
    /\ disk0 = disk
    /\ failed = {}
    /\ written = {}
    /\ loaded = <<>>
    /\ prev_loaded = {}
    /\ FixIdle
    /\ MainIdle
    /\ SpkIdle
    /\ ExtIdle

\* csv_files = get_csv_files(archive_folder); if not csv_files: return
GetCsvFiles ==
    /\ pc = "start"
    /\ pc' = IF csv_files = <<>> THEN "done" ELSE "load"
    /\ pos' = 1
    /\ file_data' = <<>>
    /\ UNCHANGED <<disk, csv_files, deletion_set, mismatch_log, mismatch_file,
                   run, disk0, failed, written, loaded, prev_loaded>>
    /\ UNCHANGED not_dup_vars

\* faulty variant: the rows are stored although the load raised
load_result_store_anyway(fd, f, rows_on_disk, ok) ==
    Append(fd, [file |-> f, rows |-> load_csv_file(rows_on_disk)])

\* try: file_data[f] = load_csv_file(f) except Exception: (message only)
load_result(fd, f, rows_on_disk, ok) ==
    IF ok THEN Append(fd, [file |-> f, rows |-> load_csv_file(rows_on_disk)])
    ELSE fd

\* one iteration of: for f in csv_files
LoadFile ==
    /\ pc = "load"
    /\ pos <= Len(csv_files)
    /\ \E ok \in BOOLEAN :
        /\ file_data' = load_result(file_data, csv_files[pos], disk[csv_files[pos]], ok)
        /\ failed' = IF ok THEN failed ELSE failed \cup {csv_files[pos]}
    /\ pos' = pos + 1
    /\ pc' = IF pos = Len(csv_files) THEN "analyze" ELSE "load"
    /\ UNCHANGED <<disk, csv_files, deletion_set, mismatch_log, mismatch_file,
                   run, disk0, written, loaded, prev_loaded>>
    /\ UNCHANGED not_dup_vars

\* deletion_set, mismatch_log = process_all_duplicates(file_data)
ProcessAllDuplicates ==
    /\ pc = "analyze"
    /\ deletion_set' = process_all_duplicates(file_data).deletion_set
    /\ mismatch_log' = process_all_duplicates(file_data).mismatch_log
    /\ loaded' = file_data
    /\ pos' = 1
    /\ pc' = "delete"
    /\ UNCHANGED <<disk, csv_files, file_data, mismatch_file, run, disk0,
                   failed, written, prev_loaded>>
    /\ UNCHANGED not_dup_vars

RECURSIVE sort_ascending(_)
sort_ascending(S) ==
    IF S = {} THEN <<>>
    ELSE LET m == CHOOSE x \in S : \A y \in S : x <= y
         IN  <<m>> \o sort_ascending(S \ {m})

RECURSIVE sort_reverse(_)
sort_reverse(S) ==
    IF S = {} THEN <<>>
    ELSE LET m == CHOOSE x \in S : \A y \in S : x >= y
         IN  <<m>> \o sort_reverse(S \ {m})

\* faulty variant: sorted without reverse=True
indices_to_delete_ascending(dset, f) ==
    sort_ascending({item[2] : item \in {it \in dset : it[1] = f}})

indices_to_delete(dset, f) ==
    sort_reverse({item[2] : item \in {it \in dset : it[1] = f}})

\* del rows[idx]
del_row(rows, idx) ==
    [n \in 1..(Len(rows) - 1) |-> IF n - 1 < idx THEN rows[n] ELSE rows[n + 1]]

RECURSIVE delete_rows(_, _)
delete_rows(rows, indices) ==
    IF indices = <<>> THEN rows
    ELSE delete_rows(
            IF Head(indices) < Len(rows) THEN del_row(rows, Head(indices)) ELSE rows,
            Tail(indices))

\* one iteration of: for f, rows in file_data.items(): delete, write back
DeleteAndWrite ==
    /\ pc = "delete"
    /\ pos <= Len(file_data)
    /\ LET f   == file_data[pos].file
           ind == indices_to_delete(deletion_set, f)
           new == delete_rows(file_data[pos].rows, ind)
       IN  IF ind # <<>>
           THEN /\ file_data' = [file_data EXCEPT ![pos].rows = new]
                /\ disk' = [disk EXCEPT ![f] = write_csv_file(new)]
                /\ written' = written \cup {f}
           ELSE UNCHANGED <<file_data, disk, written>>
    /\ pos' = pos + 1
    /\ UNCHANGED <<csv_files, pc, deletion_set, mismatch_log, mismatch_file,
                   run, disk0, failed, loaded, prev_loaded>>
    /\ UNCHANGED not_dup_vars

\* the loop over file_data.items() is over
DeleteDone ==
    /\ pc = "delete"
    /\ pos > Len(file_data)
    /\ pc' = "mismatch"
    /\ UNCHANGED <<disk, csv_files, pos, file_data, deletion_set, mismatch_log,
                   mismatch_file, run, disk0, failed, written, loaded, prev_loaded>>
    /\ UNCHANGED not_dup_vars

\* if mismatch_log: write "\n".join(mismatch_log) to mismatches.txt
WriteMismatches ==
    /\ pc = "mismatch"
    /\ mismatch_file' = IF mismatch_log # <<>> THEN mismatch_log ELSE mismatch_file
    /\ pc' = "done"
    /\ UNCHANGED <<disk, csv_files, pos, file_data, deletion_set, mismatch_log,
                   run, disk0, failed, written, loaded, prev_loaded>>
    /\ UNCHANGED not_dup_vars

\* the script is started again on the same folder
RunAgain ==
    /\ pc = "done"
    /\ run = "first"
    /\ run' = "second"
    /\ pc' = "start"
    /\ pos' = 1
    /\ file_data' = <<>>
    /\ deletion_set' = {}
    /\ mismatch_log' = <<>>
    /\ disk0' = disk
    /\ failed' = {}
    /\ written' = {}
    /\ loaded' = <<>>
    /\ prev_loaded' = dict_keys(file_data)
    /\ UNCHANGED <<disk, csv_files, mismatch_file>>
    /\ UNCHANGED not_dup_vars

Next ==
    \/ GetCsvFiles
    \/ LoadFile
    \/ ProcessAllDuplicates
    \/ DeleteAndWrite
    \/ DeleteDone
    \/ WriteMismatches
    \/ RunAgain

Spec == Init /\ [][Next]_vars

\* one run over a folder of two files whose rows fall into up to two
\* duplicate groups with differing translations
InitGroups ==
    /\ csv_files = <<"A.csv", "B.csv">>
    /\ disk \in [Files -> SeqsUpTo(GroupRowPool, MaxGroupRows)]
    /\ TotalRows(disk) <= MaxGroupRows
    /\ pc = "start"
    /\ pos = 1
    /\ file_data = <<>>
    /\ deletion_set = {}
    /\ mismatch_log = <<>>
    /\ mismatch_file = <<>>
    /\ run = "first"
    /\ disk0 = disk
    /\ failed = {}
    /\ written = {}
    /\ loaded = <<>>
    /\ prev_loaded = {}
    /\ FixIdle
    /\ MainIdle
    /\ SpkIdle
    /\ ExtIdle

NextOneRun ==
    \/ GetCsvFiles
    \/ LoadFile
    \/ ProcessAllDuplicates
    \/ DeleteAndWrite
    \/ DeleteDone
    \/ WriteMismatches

SpecGroups == InitGroups /\ [][NextOneRun]_vars

----------------------------------------------------------------------------
(* Vocabulary of the properties, stated on rows and coordinates and not    *)
(* through the resolver's own operators.  A coordinate is <<file, index>>  *)
(* with the 0-based index the row had when its file was loaded.            *)

AfterAnalysis == pc \in {"delete", "mismatch", "done"}

\* process_all_duplicates has returned and no row has been deleted yet
JustAnalysed == pc = "delete" /\ pos = 1

LoadedCoords ==
    UNION {{<<loaded[n].file, i>> : i \in 0..(Len(loaded[n].rows) - 1)} : n \in 1..Len(loaded)}

RowAt(x) == col(rows_of(loaded, x[1]), x[2])

HasSevenColumns(x) == Len(RowAt(x)) >= 7

\* the columns other than index 3 are identical after trimming
SameOtherColumns(r1, r2) ==
    /\ Len(r1) = Len(r2)
    /\ \A i \in 0..(Len(r1) - 1) : i # 3 => strip(col(r1, i)) = strip(col(r2, i))

Translation(x) == IF Len(RowAt(x)) > 3 THEN strip(col(RowAt(x), 3)) ELSE <<>>

GroupOf(x) ==
    {y \in LoadedCoords : HasSevenColumns(y) /\ SameOtherColumns(RowAt(x), RowAt(y))}

GroupCoords == {x \in LoadedCoords : HasSevenColumns(x)}

Survivors(G) == G \ deletion_set

\* the neighbours at index i-1 and i+1 of the same file that carry the same
\* trimmed value in column 7
NeighbourMatches(x) ==
    Cardinality({j \in {x[2] - 1, x[2] + 1} :
        /\ j >= 0
        /\ j < Len(rows_of(loaded, x[1]))
        /\ Len(col(rows_of(loaded, x[1]), j)) >= 7
        /\ strip(col(col(rows_of(loaded, x[1]), j), 6)) = strip(col(RowAt(x), 6))})

TieBreakSet(G) ==
    IF \E y \in G : Translation(y) # <<>>
    THEN {y \in G : Translation(y) # <<>>}
    ELSE G

\* s has the highest score of T and the smallest index among the highest
BestOf(s, T) ==
    /\ s \in T
    /\ \A c \in T : NeighbourMatches(c) <= NeighbourMatches(s)
    /\ \A c \in T : NeighbourMatches(c) = NeighbourMatches(s) => s[2] <= c[2]

\* rows with the rows at the marked 0-based indices left out, order kept
RECURSIVE KeepUnmarked(_, _, _)
KeepUnmarked(rows, marked, i) ==
    IF i >= Len(rows) THEN <<>>
    ELSE (IF i \in marked THEN <<>> ELSE <<col(rows, i)>>)
         \o KeepUnmarked(rows, marked, i + 1)

MarkedIn(dset, f) == {x[2] : x \in {y \in dset : y[1] = f}}

DiskCoords(fs) == UNION {{<<f, i>> : i \in 1..Len(disk[f])} : f \in fs}

----------------------------------------------------------------------------
(* Properties of the Duplicate Resolver *)

C2_NonEmptyTranslationSurvives ==
    pc = "done" =>
        \A x \in GroupCoords :
            LET G == GroupOf(x)
            IN  (Cardinality(G) > 1 /\ \E y \in G : Translation(y) # <<>>)
            => /\ Survivors(G) # {}
               /\ \A s \in Survivors(G) : Translation(s) # <<>>
               /\ \E d \in DiskCoords(dict_keys(loaded)) :
                     SameOtherColumns(disk[d[1]][d[2]], RowAt(x))
               /\ \A d \in DiskCoords(dict_keys(loaded)) :
                     SameOtherColumns(disk[d[1]][d[2]], RowAt(x))
                         => strip(col(disk[d[1]][d[2]], 3)) # <<>>

\* a pair whose empty row has the strictly higher context score: the row
\* with the translation is the one kept
C2_Witness ==
    /\ pc = "done"
    /\ \E x, y \in GroupCoords :
        /\ GroupOf(x) = {x, y}
        /\ x # y
        /\ Translation(x) = <<>>
        /\ Translation(y) # <<>>
        /\ NeighbourMatches(x) > NeighbourMatches(y)
        /\ x \in deletion_set
        /\ y \notin deletion_set

\* C3: when two rows of a duplicate group have non-empty, differing trimmed
\* translations, some entry of the mismatch log names both rows by file and
\* 1-based row number, and exactly one row of the group survives: the one
\* with the highest context score among the rows with a translation, and the
\* smallest row index among those with that score.
C3_ConflictLoggedAndResolved ==
    pc = "done" =>
        \A x, y \in GroupCoords :
            (Translation(x) # <<>> /\ Translation(y) # <<>>
                /\ Translation(x) # Translation(y)
                /\ SameOtherColumns(RowAt(x), RowAt(y)))
            => /\ \E n \in 1..Len(mismatch_log) :
                    {<<x[1], x[2] + 1>>, <<y[1], y[2] + 1>>} \subseteq
                        {<<mismatch_log[n].lines[k].file, mismatch_log[n].lines[k].row>> :
                            k \in 1..Len(mismatch_log[n].lines)}
               /\ Cardinality(Survivors(GroupOf(x))) = 1
               /\ \A s \in Survivors(GroupOf(x)) : BestOf(s, TieBreakSet(GroupOf(x)))

\* a conflict between two rows, one of them removed, and the log written
C3_Witness ==
    /\ pc = "done"
    /\ mismatch_file # <<>>
    /\ \E x, y \in GroupCoords :
        /\ SameOtherColumns(RowAt(x), RowAt(y))
        /\ Translation(x) # <<>> /\ Translation(y) # <<>>
        /\ Translation(x) # Translation(y)
        /\ x[2] > 0
        /\ x \in deletion_set

Perms(s) ==
    {p \in [1..Len(s) -> InSeq(s)] : \A i, j \in 1..Len(s) : i # j => p[i] # p[j]}

CoordOf(c) == <<c.file, c.row_index>>

\* C4: in whatever order the candidates of a duplicate group are listed, the
\* winner resolve_group returns is in the tie-break set (the rows with a
\* translation, or the whole group when there is none), has the maximum
\* context score of that set, and has the smallest row index among the
\* candidates of that set with the maximum score.
C4_WinnerHasMaxScoreThenMinIndex ==
    JustAnalysed =>
        LET dup_dict == analyze_duplicates(loaded)
        IN  \A n \in 1..Len(dup_dict) :
                Len(dup_dict[n].cands) > 1 =>
                    \A p \in Perms(dup_dict[n].cands) :
                        BestOf(CoordOf(resolve_group(p, loaded, <<>>).keep),
                               TieBreakSet({CoordOf(p[k]) : k \in 1..Len(p)}))

\* a group in which the listing order and the decision differ: the winner is
\* neither the first listed nor alone at the highest score
C4_Witness ==
    /\ JustAnalysed
    /\ \E n \in 1..Len(analyze_duplicates(loaded)) :
        LET group == analyze_duplicates(loaded)[n].cands
            T     == TieBreakSet({CoordOf(group[k]) : k \in 1..Len(group)})
            keep  == CoordOf(resolve_group(group, loaded, <<>>).keep)
        IN  /\ Len(group) > 2
            /\ keep # CoordOf(group[1])
            /\ keep \notin deletion_set
            /\ \E c \in T : NeighbourMatches(c) < NeighbourMatches(keep)
            /\ \E c \in T : c # keep /\ NeighbourMatches(c) = NeighbourMatches(keep)

\* file_data with its files inserted in the order o
Reordered(fd, o) == [n \in 1..Len(o) |-> fd[dict_get(fd, o[n])]]

\* C5 (as stated): the deletion set is the same for every order in which the
\* loaded files are enumerated and inserted into file_data.
C5_DeletionSetIndependentOfFileOrder ==
    JustAnalysed =>
        \A o \in Perms([n \in 1..Len(loaded) |-> loaded[n].file]) :
            process_all_duplicates(Reordered(loaded, o)).deletion_set = deletion_set

\* C6: the context score of every candidate is the number of rows among
\* index i-1 and i+1 of its own file, within the file and of at least 7
\* columns, whose trimmed column 7 equals the candidate's trimmed column 7;
\* it is 0, 1 or 2, the first row gets nothing from a previous row and the
\* last row nothing from a next row.
C6_ContextScoreCountsAdjacentMatches ==
    JustAnalysed =>
        LET dup_dict == analyze_duplicates(loaded)
        IN  \A n \in 1..Len(dup_dict) : \A k \in 1..Len(dup_dict[n].cands) :
                LET c == dup_dict[n].cands[k]
                    rows == rows_of(loaded, c.file)
                    score == compute_context_score(rows, c.row_index, c.col7)
                IN  /\ score = NeighbourMatches(CoordOf(c))
                    /\ score \in {0, 1, 2}
                    /\ c.row_index = 0 => score <= 1
                    /\ c.row_index = Len(rows) - 1 => score <= 1
                    /\ Len(rows) = 1 => score = 0

\* a file of three rows with the same column 7: the first and the last row
\* score 1, the middle row scores 2
C6_Witness ==
    /\ JustAnalysed
    /\ \E n \in 1..Len(loaded) :
        /\ Len(loaded[n].rows) = 3
        /\ \A i \in 0..2 : HasSevenColumns(<<loaded[n].file, i>>)
        /\ NeighbourMatches(<<loaded[n].file, 0>>) = 1
        /\ NeighbourMatches(<<loaded[n].file, 1>>) = 2
        /\ NeighbourMatches(<<loaded[n].file, 2>>) = 1

RECURSIVE ShortRows(_)
ShortRows(rows) ==
    IF rows = <<>> THEN <<>>
    ELSE (IF Len(Head(rows)) < 7 THEN <<Head(rows)>> ELSE <<>>) \o ShortRows(Tail(rows))

\* C7: a row of fewer than 7 columns is in no duplicate group and not in the
\* deletion set, and it is in its file after the run: the rows of fewer than
\* 7 columns of every file are, in order, those the file had before the run.
C7_ShortRowsNeverMatchedNorDeleted ==
    (JustAnalysed \/ pc = "done") =>
        /\ \A x \in LoadedCoords \ GroupCoords :
            /\ x \notin deletion_set
            /\ LET dup_dict == analyze_duplicates(loaded)
               IN  \A n \in 1..Len(dup_dict) : \A k \in 1..Len(dup_dict[n].cands) :
                       CoordOf(dup_dict[n].cands[k]) # x
        /\ \A f \in Files : ShortRows(disk[f]) = ShortRows(disk0[f])

\* a six-column row lies between two seven-column duplicates of one file, of
\* which one is removed, and is still in the file written
C7_Witness ==
    /\ pc = "done"
    /\ \E x \in LoadedCoords \ GroupCoords :
        /\ x[2] = 1
        /\ <<x[1], 2>> \in deletion_set
        /\ x[1] \in written
        /\ disk[x[1]] = <<col(rows_of(loaded, x[1]), 0), RowAt(x)>>

C9_ExactlyMarkedRowsRemoved ==
    AfterAnalysis =>
        \A n \in 1..Len(loaded) :
            LET f == loaded[n].file
                marked == MarkedIn(deletion_set, f)
            IN  /\ file_data[n].file = f
                /\ (pc = "delete" /\ n >= pos) => file_data[n].rows = loaded[n].rows
                /\ (pc # "delete" \/ n < pos) =>
                    /\ file_data[n].rows = KeepUnmarked(loaded[n].rows, marked, 0)
                    /\ disk[f] = KeepUnmarked(loaded[n].rows, marked, 0)
                    /\ Len(file_data[n].rows) = Len(loaded[n].rows) - Cardinality(marked)

\* the first two rows of a file of three rows removed and the third kept
C9_Witness ==
    /\ pc = "done"
    /\ \E n \in 1..Len(loaded) :
        /\ MarkedIn(deletion_set, loaded[n].file) = {0, 1}
        /\ Len(loaded[n].rows) = 3
        /\ loaded[n].file \in written
        /\ disk[loaded[n].file] = <<loaded[n].rows[3]>>

\* the run over the files that loaded only: file_data as main builds it when
\* the failed files are not in the folder
RECURSIVE WithoutFailed(_, _)
WithoutFailed(files, bad) ==
    IF files = <<>> THEN <<>>
    ELSE (IF Head(files) \in bad THEN <<>>
          ELSE <<[file |-> Head(files), rows |-> disk0[Head(files)]]>>)
         \o WithoutFailed(Tail(files), bad)

\* C10: a file whose load raised is not in file_data, has no coordinate in
\* the deletion set, is not written and keeps its content; when the run ends
\* every other file holds what a run over a folder without the failed files
\* leaves in it, and is written exactly when that run marks a row of it.
C10_FailedLoadIsLocal ==
    /\ \A f \in failed :
        /\ f \notin dict_keys(file_data)
        /\ \A x \in deletion_set : x[1] # f
        /\ f \notin written
        /\ disk[f] = disk0[f]
    /\ pc = "done" =>
        LET fd == WithoutFailed(csv_files, failed)
            dset == process_all_duplicates(fd).deletion_set
        IN  \A f \in InSeq(csv_files) \ failed :
                /\ disk[f] = KeepUnmarked(disk0[f], MarkedIn(dset, f), 0)
                /\ f \in written <=> MarkedIn(dset, f) # {}

\* one file failed to load while holding a duplicate of a row of the other
\* file, and the other file lost a duplicate row of its own
C10_Witness ==
    /\ pc = "done"
    /\ run = "first"
    /\ \E f \in failed : \E g \in written :
        /\ \E i \in 1..Len(disk[f]) : \E j \in 1..Len(disk[g]) :
              Len(disk[f][i]) >= 7 /\ SameOtherColumns(disk[f][i], disk[g][j])

----------------------------------------------------------------------------
(* Properties of the Duplicate Resolver: mismatch log and deletion set *)

Groups == {GroupOf(x) : x \in GroupCoords}

WithTranslation(G) == {y \in G : Translation(y) # <<>>}

\* the groups of more than one row whose non-empty trimmed translations are
\* not all identical
ConflictGroups ==
    {G \in Groups :
        Cardinality(G) > 1 /\ Cardinality({Translation(y) : y \in WithTranslation(G)}) > 1}

\* the rows an entry names, as coordinates
EntryRows(entry) ==
    {<<entry.lines[k].file, entry.lines[k].row - 1>> : k \in 1..Len(entry.lines)}

C11_LogMatchesConflicts ==
    (JustAnalysed \/ pc = "done") =>
        /\ Len(mismatch_log) = Cardinality(ConflictGroups)
        /\ {EntryRows(mismatch_log[n]) : n \in 1..Len(mismatch_log)}
             = {WithTranslation(G) : G \in ConflictGroups}
        /\ \A n \in 1..Len(mismatch_log) : \A k \in 1..Len(mismatch_log[n].lines) :
             mismatch_log[n].lines[k].col4 =
                Translation(<<mismatch_log[n].lines[k].file, mismatch_log[n].lines[k].row - 1>>)
        /\ \A G \in Groups : Cardinality(G) > 1 => Cardinality(Survivors(G)) = 1
        /\ pc = "done" =>
             mismatch_file = mismatch_log

C11_FileWrittenOnceAtTheEnd ==
    (mismatch_file' # mismatch_file) =>
        /\ pc = "mismatch"
        /\ pc' = "done"
        /\ pos > Len(file_data)
        /\ mismatch_log # <<>>
        /\ mismatch_file = <<>>
        /\ mismatch_file' = mismatch_log

C20_AllButTheWinnerMarked ==
    JustAnalysed =>
        \A x \in GroupCoords :
            LET G == GroupOf(x)
            IN  /\ Cardinality(G) > 1 =>
                    /\ Cardinality(G \cap deletion_set) = Cardinality(G) - 1
                    /\ \E s \in Survivors(G) : BestOf(s, TieBreakSet(G))
                    /\ \A y \in G \ TieBreakSet(G) : y \in deletion_set
                /\ Cardinality(G) = 1 => x \notin deletion_set
        /\ deletion_set \subseteq GroupCoords

\* a group of three rows of which the one without translation and one with
\* a translation are marked
C20_Witness ==
    /\ JustAnalysed
    /\ \E x \in GroupCoords :
        /\ Cardinality(GroupOf(x)) = 3
        /\ Cardinality(GroupOf(x) \cap deletion_set) = 2
        /\ \E y \in GroupOf(x) : Translation(y) = <<>> /\ y \in deletion_set
        /\ \E y \in GroupOf(x) : Translation(y) # <<>> /\ y \in deletion_set

----------------------------------------------------------------------------
(* Part 2: Tools/Tag Fixer.py.                                             *)
(* A text is a sequence of one-character strings; "\n" and "\r" are the    *)
(* line boundaries of str.splitlines that the texts below contain, and     *)
(* " " is the whitespace inside a line.  The regular expression            *)
(* ^\s*(\S+?>) is computed on the characters of the candidate line.        *)
(* The files of main are written on the successful path of csv.writer.     *)

LineBreaks == {"\n", "\r"}

TOKENS == <<
    <<"<", "A", "R", "E", "A">>,
    <<"<", "C", "O", "L">>,
    <<"<", "H", "A", "V", "E">>,
    <<"<", "I", "C", "O", "N">>,
    <<"<", "I", "T", "E", "M">>,
    <<"<", "K", "C">>,
    <<"<", "K", "C", "P">>,
    <<"<", "K", "C", "T">>,
    <<"<", "K", "C", "T", "P">>,
    <<"<", "N", "A", "M", "E">>,
    <<"<", "N", "P", "C">>,
    <<"<", "Q", "C", "N", "D">>,
    <<"<", "Q", "D", "E", "L">>,
    <<"<", "Q", "D", "E", "L", " ", "N", "A", "M", "E">>,
    <<"<", "S", "P", "A", "I">>,
    <<"<", "S", "P", "O", "T">>,
    <<"<", "S", "Q", "D", "I">>,
    <<"<", "S", "T", "G">>,
    <<"<", "U", "N", "I", "T">>,
    <<"<", "U", "N", "T", "N">>,
    <<"<", "V", "A", "L">>
>>

\* s.endswith(suffix)
endswith(s, suffix) ==
    /\ Len(s) >= Len(suffix)
    /\ SubSeq(s, Len(s) - Len(suffix) + 1, Len(s)) = suffix

\* s.startswith(prefix)
startswith(s, prefix) ==
    /\ Len(s) >= Len(prefix)
    /\ SubSeq(s, 1, Len(prefix)) = prefix

\* the value None of ends_with_token
no_token == <<>>

\* faulty variant: the token is looked for at the start of the line
ends_with_token_startswith(line, tokens) ==
    LET stripped == rstrip(line)
        hits     == SelectSeq(tokens, LAMBDA token : startswith(stripped, token))
    IN  IF hits = <<>> THEN no_token ELSE Head(hits)

ends_with_token(line, tokens) ==
    LET stripped == rstrip(line)
        hits     == SelectSeq(tokens, LAMBDA token : endswith(stripped, token))
    IN  IF hits = <<>> THEN no_token ELSE Head(hits)

\* text.splitlines(): "\n", "\r" and "\r\n" end a line; no empty last line
RECURSIVE splitlines(_)
splitlines(t) ==
    IF t = <<>> THEN <<>>
    ELSE LET brk == {n \in 1..Len(t) : t[n] \in LineBreaks}
         IN  IF brk = {} THEN <<t>>
             ELSE LET n    == CHOOSE x \in brk : \A y \in brk : x <= y
                      skip == IF t[n] = "\r" /\ n < Len(t) /\ t[n + 1] = "\n"
                              THEN 2 ELSE 1
                  IN  <<SubSeq(t, 1, n - 1)>>
                        \o splitlines(SubSeq(t, n + skip, Len(t)))

\* "\n".join(ls)
RECURSIVE join(_)
join(ls) ==
    IF ls = <<>> THEN <<>>
    ELSE IF Len(ls) = 1 THEN ls[1]
    ELSE ls[1] \o <<"\n">> \o join(Tail(ls))

\* the value None of re.match
no_match == [matched |-> FALSE, group1 |-> <<>>, end |-> 0]

\* faulty variant: re.search, the fragment is looked for anywhere in the line
re_search(line) ==
    LET ends == {p \in 2..Len(line) :
                    line[p] = ">" /\ line[p - 1] \notin Whitespace}
    IN  IF ends = {} THEN no_match
        ELSE LET p == CHOOSE x \in ends : \A y \in ends : x <= y
                 q == CHOOSE x \in 1..(p - 1) :
                         /\ \A y \in x..(p - 1) : line[y] \notin Whitespace
                         /\ x > 1 => line[x - 1] \in Whitespace
             IN  [matched |-> TRUE, group1 |-> SubSeq(line, q, p), end |-> p]

\* re.match(r'^\s*(\S+?>)', line): all leading whitespace, then the
\* shortest run of one or more non-whitespace characters followed by ">"
re_match(line) ==
    LET k    == Len(line) - Len(lstrip(line))
        ends == {p \in (k + 2)..Len(line) :
                    /\ line[p] = ">"
                    /\ \A q \in (k + 1)..(p - 1) : line[q] \notin Whitespace}
    IN  IF ends = {} THEN no_match
        ELSE LET p == CHOOSE x \in ends : \A y \in ends : x <= y
             IN  [matched |-> TRUE, group1 |-> SubSeq(line, k + 1, p), end |-> p]

\* faulty variant: blank lines are not skipped
next_non_blank_no_skip(ls, j) == j

\* j = i + 1; while j < len(lines) and lines[j].strip() == "": j += 1
RECURSIVE next_non_blank(_, _)
next_non_blank(ls, j) ==
    IF j < Len(ls) /\ strip(col(ls, j)) = <<>> THEN next_non_blank(ls, j + 1)
    ELSE j

\* del lines[j]
del_line(ls, j) ==
    [n \in 1..(Len(ls) - 1) |-> IF n - 1 < j THEN ls[n] ELSE ls[n + 1]]

\* faulty variant: the fragment is not taken off the candidate line
candidate_after_fragment_kept(ls, j, remainder) == ls

\* faulty variant: the candidate line is deleted whatever remains of it
candidate_after_always_deleted(ls, j, remainder) == del_line(ls, j)

\* if remainder.strip() == "": del lines[j] else: lines[j] = remainder
candidate_after(ls, j, remainder) ==
    IF strip(remainder) = <<>> THEN del_line(ls, j)
    ELSE [ls EXCEPT ![j + 1] = remainder]

\* faulty variant: modified is not set
fix_flag_never_set(applied) == FALSE

\* modified = True, in the branch that replaces lines[i]
fix_flag(applied) == applied

\* the body of the while loop for index i: the lines after it and whether
\* a fix was applied
fix_at(ls, i) ==
    LET token == ends_with_token(col(ls, i), TOKENS)
        j     == next_non_blank(ls, i + 1)
        m     == IF token # no_token /\ j < Len(ls) THEN re_match(col(ls, j))
                 ELSE no_match
        new_line  == rstrip(col(ls, i)) \o <<" ">> \o m.group1
        remainder == SubSeq(col(ls, j), m.end + 1, Len(col(ls, j)))
    IN  IF m.matched /\ new_line # col(ls, i)
        THEN [lines    |-> candidate_after([ls EXCEPT ![i + 1] = new_line], j, remainder),
              modified |-> fix_flag(TRUE)]
        ELSE [lines |-> ls, modified |-> FALSE]

\* faulty variant: the line after a fixed line is not examined
next_index_skips_line_after_fix(i, fixed) == IF fixed THEN i + 2 ELSE i + 1

\* faulty variant: a line that was just fixed is examined again
next_index_same_line_after_fix(i, fixed) == IF fixed THEN i ELSE i + 1

\* i += 1, at the end of every iteration
next_index(i, fixed) == i + 1

RECURSIVE fix_loop(_, _, _)
fix_loop(ls, i, modified) ==
    IF i < Len(ls)
    THEN fix_loop(fix_at(ls, i).lines, next_index(i, fix_at(ls, i).modified),
                  modified \/ fix_at(ls, i).modified)
    ELSE [text |-> join(ls), changed |-> modified]

\* fix_broken_tags(text) as one function: (modified_text, changed)
fix_broken_tags(t) == fix_loop(splitlines(t), 0, FALSE)

----------------------------------------------------------------------------
(* One call of fix_broken_tags, iteration by iteration *)

MaxPieces == 5

\* the pieces a text is put together from
Pieces == {<<"<", "I", "T", "E", "M">>, <<"a">>, <<">">>, <<" ">>, <<"\n">>, <<"\r">>}

RECURSIVE TextsOfPieces(_)
TextsOfPieces(n) ==
    IF n = 0 THEN {<<>>}
    ELSE {p \o t : p \in Pieces, t \in TextsOfPieces(n - 1)}

\* "Equip the <ITEM\n\nname123>"
EquipText ==
    <<"E", "q", "u", "i", "p", " ", "t", "h", "e", " ", "<", "I", "T",
      "E", "M", "\n", "\n", "n", "a", "m", "e", "1", "2", "3", ">">>

\* "Equip the <ITEM name123>"
EquipMerged ==
    <<"E", "q", "u", "i", "p", " ", "t", "h", "e", " ", "<", "I", "T",
      "E", "M", " ", "n", "a", "m", "e", "1", "2", "3", ">">>

\* "<NPC\n007> and more text"
NpcText ==
    <<"<", "N", "P", "C", "\n", "0", "0", "7", ">", " ", "a", "n", "d",
      " ", "m", "o", "r", "e", " ", "t", "e", "x", "t">>

\* "<ITEM\n\na a>"
StrayText ==
    <<"<", "I", "T", "E", "M", "\n", "\n", "a", " ", "a", ">">>

\* "<ITEM\na>\n<ITEM\na>"
TwoTagsText ==
    <<"<", "I", "T", "E", "M", "\n", "a", ">", "\n",
      "<", "I", "T", "E", "M", "\n", "a", ">">>

Texts ==
    UNION {TextsOfPieces(n) : n \in 0..MaxPieces}
        \cup {EquipText, NpcText, StrayText, TwoTagsText}

InitFix ==
    /\ text_in \in Texts
    /\ lines_now = <<>>
    /\ i_now = 0
    /\ modified_now = FALSE
    /\ returned = [text |-> <<>>, changed |-> FALSE]
    /\ fixes = 0
    /\ tag_pc = "call"
    /\ DupIdle
    /\ MainIdle
    /\ SpkIdle
    /\ ExtIdle

\* lines = text.splitlines(); modified = False; i = 0
FixBrokenTagsEnter ==
    /\ tag_pc = "call"
    /\ lines_now' = splitlines(text_in)
    /\ modified_now' = FALSE
    /\ i_now' = 0
    /\ tag_pc' = "scan"
    /\ UNCHANGED <<text_in, returned, fixes>>
    /\ UNCHANGED not_fix_vars

\* one iteration of: while i < len(lines)
FixBrokenTagsIterate ==
    /\ tag_pc = "scan"
    /\ i_now < Len(lines_now)
    /\ lines_now' = fix_at(lines_now, i_now).lines
    /\ modified_now' = (modified_now \/ fix_at(lines_now, i_now).modified)
    /\ i_now' = next_index(i_now, fix_at(lines_now, i_now).modified)
    /\ fixes' = IF lines_now' # lines_now THEN fixes + 1 ELSE fixes
    /\ UNCHANGED <<text_in, returned, tag_pc>>
    /\ UNCHANGED not_fix_vars

\* return "\n".join(lines), modified
FixBrokenTagsReturn ==
    /\ tag_pc = "scan"
    /\ i_now >= Len(lines_now)
    /\ returned' = [text |-> join(lines_now), changed |-> modified_now]
    /\ tag_pc' = "returned"
    /\ UNCHANGED <<text_in, lines_now, i_now, modified_now, fixes>>
    /\ UNCHANGED not_fix_vars

NextFix ==
    \/ FixBrokenTagsEnter
    \/ FixBrokenTagsIterate
    \/ FixBrokenTagsReturn

SpecFix == InitFix /\ [][NextFix]_vars

MaxLines == 2

\* the lines a text of the fair specification is put together from: a
\* token line, a fragment, a fragment with text after it, a blank line
FairLines ==
    {<<"<", "I", "T", "E", "M">>, <<"a", ">">>, <<"a", ">", "a">>, <<" ">>, <<>>}

\* the lines, each ended by "\n"
RECURSIVE TextsOfLines(_)
TextsOfLines(n) ==
    IF n = 0 THEN {<<>>}
    ELSE {l \o <<"\n">> \o t : l \in FairLines, t \in TextsOfLines(n - 1)}

FairTexts == UNION {TextsOfLines(n) : n \in 0..MaxLines} \cup {EquipText, NpcText}

\* no call yet
InitFixFair ==
    /\ text_in = <<>>
    /\ lines_now = <<>>
    /\ i_now = 0
    /\ modified_now = FALSE
    /\ returned = [text |-> <<>>, changed |-> FALSE]
    /\ fixes = 0
    /\ tag_pc = "idle"
    /\ DupIdle
    /\ MainIdle
    /\ SpkIdle
    /\ ExtIdle

\* fix_broken_tags(text) is called with some text
FixBrokenTagsCall ==
    /\ tag_pc = "idle"
    /\ text_in' \in FairTexts
    /\ tag_pc' = "call"
    /\ UNCHANGED <<lines_now, i_now, modified_now, returned, fixes>>
    /\ UNCHANGED not_fix_vars

NextFixFair ==
    \/ FixBrokenTagsCall
    \/ FixBrokenTagsEnter
    \/ FixBrokenTagsIterate
    \/ FixBrokenTagsReturn

\* a call that was made is never suspended for ever: the interpreter goes
\* on running it
SpecFixFair == InitFixFair /\ [][NextFixFair]_vars /\ WF_vars(NextFixFair)

\* the call, iteration by iteration, returns what fix_broken_tags computes
FixCallIsFixBrokenTags ==
    tag_pc = "returned" => returned = fix_broken_tags(text_in)

----------------------------------------------------------------------------
(* Vocabulary of the Tag Repair properties, stated on lines and characters *)
(* and not through fix_at or re_match.                                     *)

Returned == tag_pc = "returned"

InputLines == splitlines(text_in)

\* a line that, trailing whitespace apart, ends in a reference token
TokenLine(l) == \E n \in 1..Len(TOKENS) : endswith(rstrip(l), TOKENS[n])

Blank(l) == \A n \in 1..Len(l) : l[n] \in Whitespace

\* a line that is a closing fragment and nothing else: some characters
\* without whitespace or ">" and then ">"
ClosingFragment(l) ==
    /\ Len(l) >= 2
    /\ l[Len(l)] = ">"
    /\ \A n \in 1..(Len(l) - 1) : l[n] \notin Whitespace /\ l[n] # ">"

\* a token line, one or more blank lines, a closing fragment
BrokenTagShape ==
    /\ Len(InputLines) >= 3
    /\ TokenLine(InputLines[1])
    /\ \A n \in 2..(Len(InputLines) - 1) : Blank(InputLines[n])
    /\ ClosingFragment(InputLines[Len(InputLines)])

MergedFirstLine ==
    rstrip(InputLines[1]) \o <<" ">> \o InputLines[Len(InputLines)]

NoTokenLine == \A n \in 1..Len(InputLines) : ~TokenLine(InputLines[n])

\* "\n" is the only line boundary of the text and does not end it
PlainLineBreaks(t) ==
    /\ \A n \in 1..Len(t) : t[n] # "\r"
    /\ t # <<>> => t[Len(t)] # "\n"

\* index (0-based) of the first non-blank line after line i, Len(ls) if none
Candidate(ls, i) ==
    LET later == {j \in (i + 1)..(Len(ls) - 1) : ~Blank(col(ls, j))}
    IN  IF later = {} THEN Len(ls)
        ELSE CHOOSE j \in later : \A y \in later : j <= y

\* position (1-based) of the first ">" of a line, 0 if none
FirstGt(l) ==
    LET gts == {n \in 1..Len(l) : l[n] = ">"}
    IN  IF gts = {} THEN 0 ELSE CHOOSE n \in gts : \A y \in gts : n <= y

----------------------------------------------------------------------------
(* C12 *)

\* C12 as stated: a token line, blank lines and a line that is only the
\* closing fragment come back as one line, first line + " " + fragment,
\* with changed = true; "Equip the <ITEM", blank, "name123>" comes back as
\* exactly "Equip the <ITEM name123>".
C12_MergedIntoOneLine ==
    Returned =>
        /\ BrokenTagShape =>
              returned.text = MergedFirstLine /\ returned.changed
        /\ text_in = EquipText => returned.text = EquipMerged

\* C12: a token line, blank lines and a line that is only the closing
\* fragment come back with changed = true as first line + " " + fragment
\* followed by the blank lines, which stay; the fragment line is gone.
\* "Equip the <ITEM", blank, "name123>" comes back as
\* "Equip the <ITEM name123>" and one empty line.
C12_MergedAboveTheBlankLines ==
    Returned =>
        /\ BrokenTagShape =>
              /\ returned.changed
              /\ returned.text =
                    join(<<MergedFirstLine>>
                           \o SubSeq(InputLines, 2, Len(InputLines) - 1))
        /\ text_in = EquipText =>
              returned.text = EquipMerged \o <<"\n">> /\ returned.changed

C12_Witness ==
    /\ Returned
    /\ text_in = EquipText
    /\ BrokenTagShape
    /\ returned.text = EquipMerged \o <<"\n">>
    /\ returned.changed

----------------------------------------------------------------------------
(* C13 *)

\* C13 as stated: a text none of whose lines ends in a reference token is
\* returned unchanged with changed = false.
C13_NoTokenTextReturnedUnchanged ==
    (Returned /\ NoTokenLine) =>
        returned.text = text_in /\ ~returned.changed

\* C13: a text none of whose lines ends in a reference token is returned
\* with changed = false as its lines joined by "\n"; that is the text
\* itself when "\n" is its only line boundary and does not end it.
C13_NoTokenTextKeepsItsLines ==
    (Returned /\ NoTokenLine) =>
        /\ ~returned.changed
        /\ returned.text = join(InputLines)
        /\ PlainLineBreaks(text_in) => returned.text = text_in

C13_Witness ==
    /\ Returned
    /\ NoTokenLine
    /\ text_in = <<"a", "\n", "a", ">", "\n">>
    /\ returned.text = <<"a", "\n", "a", ">">>
    /\ ~returned.changed

----------------------------------------------------------------------------
(* C14 *)

\* what one iteration does to the candidate line, when it moves a fragment
RemainderKeptOrLineDeleted ==
    (tag_pc = "scan" /\ lines_now' # lines_now) =>
        LET ls    == lines_now
            i     == i_now
            j     == Candidate(ls, i)
            c     == col(ls, j)
            moved == SubSeq(col(lines_now', i), Len(rstrip(col(ls, i))) + 2,
                            Len(col(lines_now', i)))
            k     == Len(c) - Len(lstrip(c))
            rest  == SubSeq(c, k + Len(moved) + 1, Len(c))
        IN  /\ j < Len(ls)
            /\ SubSeq(c, k + 1, k + Len(moved)) = moved
            /\ IF ~Blank(rest)
               THEN /\ Len(lines_now') = Len(ls)
                    /\ col(lines_now', j) = rest
                    /\ \A n \in 0..(Len(ls) - 1) :
                          n \notin {i, j} => col(lines_now', n) = col(ls, n)
               ELSE /\ Len(lines_now') = Len(ls) - 1
                    /\ \A n \in 0..(j - 1) :
                          n # i => col(lines_now', n) = col(ls, n)
                    /\ \A n \in j..(Len(ls) - 2) :
                          col(lines_now', n) = col(ls, n + 1)

\* C14: when a fragment is moved and text other than whitespace follows it
\* on the candidate line, that line stays where it is and holds exactly the
\* text after the fragment, the number of lines unchanged; the candidate
\* line is deleted exactly when what follows the fragment is empty or
\* whitespace only.
C14_RemainderKeptOrLineDeleted == [][RemainderKeptOrLineDeleted]_vars

C14_Witness ==
    /\ tag_pc = "scan"
    /\ text_in = NpcText
    /\ i_now = 1
    /\ lines_now = << <<"<", "N", "P", "C", " ", "0", "0", "7", ">">>,
                      <<" ", "a", "n", "d", " ", "m", "o", "r", "e", " ", "t", "e", "x", "t">> >>

----------------------------------------------------------------------------
(* C15 *)

\* one iteration on a token line whose candidate line holds a ">"
FragmentIsPrefixThroughFirstGt ==
    (/\ tag_pc = "scan"
     /\ i_now < Len(lines_now)
     /\ TokenLine(col(lines_now, i_now))
     /\ Candidate(lines_now, i_now) < Len(lines_now)
     /\ FirstGt(col(lines_now, Candidate(lines_now, i_now))) > 0)
    => LET c == col(lines_now, Candidate(lines_now, i_now))
       IN  col(lines_now', i_now) =
              rstrip(col(lines_now, i_now)) \o <<" ">> \o SubSeq(c, 1, FirstGt(c))

\* C15: for a line ending in a reference token whose next non-blank line
\* holds a ">", the fragment moved to the first line is that line's text
\* from its very beginning up to and including the first ">".
C15_FragmentIsPrefixThroughFirstGt == [][FragmentIsPrefixThroughFirstGt]_vars

----------------------------------------------------------------------------
(* C16 *)

\* C16 as stated: changed is true exactly when the returned text differs
\* from the input text.
C16_ChangedIffTextDiffers ==
    Returned => (returned.changed <=> returned.text # text_in)

\* C16: changed is true exactly when a fragment was moved onto a token
\* line; the returned text then differs from the input; when changed is
\* false the returned text is the input's lines joined by "\n", the input
\* itself when "\n" is its only line boundary and does not end it.
C16_ChangedIffFragmentMoved ==
    Returned =>
        /\ returned.changed <=> fixes > 0
        /\ returned.changed => returned.text # text_in
        /\ ~returned.changed =>
              /\ returned.text = join(InputLines)
              /\ PlainLineBreaks(text_in) => returned.text = text_in

C16_Witness ==
    /\ Returned
    /\ text_in = <<"<", "I", "T", "E", "M", "\r", "\n", "a", ">">>
    /\ fixes = 1
    /\ returned.changed
    /\ returned.text = <<"<", "I", "T", "E", "M", " ", "a", ">">>

----------------------------------------------------------------------------
(* One run of Tag Fixer's main over its file arguments *)

MaxTagRows == 2

MaxArgs == 2

\* four columns, a tag broken over a blank line in the translation
TagRowBroken ==
    << <<"k">>, empty_cell, empty_cell, <<"<", "I", "T", "E", "M", "\n", "\n", "a", ">">> >>
\* five columns, a tag broken before text that goes on
TagRowRemainder ==
    << <<"k">>, empty_cell, empty_cell, <<"<", "K", "C", " ", "\n", "a", ">", "a">>, <<"x">> >>
\* four columns, no token, the translation ends with a line break
TagRowTrailing ==
    << <<"k">>, empty_cell, empty_cell, <<"a", "\r", "\n">> >>
\* three columns, the last one holds a broken tag
TagRowShort ==
    << <<"k">>, empty_cell, <<"<", "I", "T", "E", "M", "\n", "a", ">">> >>

TagRowPool == {TagRowBroken, TagRowRemainder, TagRowTrailing, TagRowShort}

\* an entry of results.txt
log_entry(kind, file, row_number, original, fixed) ==
    [kind |-> kind, file |-> file, row_number |-> row_number,
     original |-> original, fixed |-> fixed]

\* "Processing file: ..."
processing_entry(f) == log_entry("processing", f, 0, <<>>, <<>>)

\* "Error reading ...: ..."
error_reading_entry(f) == log_entry("error_reading", f, 0, <<>>, <<>>)

\* "Updated file: ..."
updated_entry(f) == log_entry("updated", f, 0, <<>>, <<>>)

\* "File not found: ..."
not_found_entry(f) == log_entry("not_found", f, 0, <<>>, <<>>)

\* len(row) >= 4 and fix_broken_tags(row[3]) returns changed
row_changed(row) ==
    IF Len(row) < 4 THEN FALSE ELSE fix_broken_tags(col(row, 3)).changed

\* the row after one iteration of: for row in reader
fixed_row(row) ==
    IF row_changed(row)
    THEN [row EXCEPT ![4] = fix_broken_tags(col(row, 3)).text]
    ELSE row

\* the "Row n: / Original: / Fixed:" entries, in the order of the rows
RECURSIVE row_entries(_, _, _)
row_entries(reader, f, row_number) ==
    IF row_number > Len(reader) THEN <<>>
    ELSE (IF row_changed(reader[row_number])
          THEN <<log_entry("row", f, row_number, col(reader[row_number], 3),
                           fix_broken_tags(col(reader[row_number], 3)).text)>>
          ELSE <<>>)
         \o row_entries(reader, f, row_number + 1)

\* process_csv on a file that could be read: (reader, change_flag) and
\* what it wrote to output_handle
process_csv(reader, f) ==
    [rows        |-> [n \in 1..Len(reader) |-> fixed_row(reader[n])],
     change_flag |-> \E n \in 1..Len(reader) : row_changed(reader[n]),
     log         |-> <<processing_entry(f)>> \o row_entries(reader, f, 1)]

\* faulty variant: the file is written whether or not a row changed
write_wanted_always(changed, read_ok) == read_ok

\* if changed and updated_rows is not None
write_wanted(changed, read_ok) == changed /\ read_ok

\* faulty variant: a read that raises ends the loop over the arguments
next_arg_stops_on_error(n, args, read_ok) ==
    IF read_ok THEN n + 1 ELSE Len(args) + 1

\* the for loop goes on to the next argument whatever happened to this one
next_arg(n, args, read_ok) == n + 1

TagTotalRows(d) == Len(d["A.csv"].rows) + Len(d["B.csv"].rows)

InitMain ==
    /\ argv \in SeqsUpTo(Files, MaxArgs)
    /\ tag_disk \in [Files -> [isfile : BOOLEAN, rows : SeqsUpTo(TagRowPool, MaxTagRows)]]
    /\ \A f \in Files : ~tag_disk[f].isfile => tag_disk[f].rows = <<>>
    /\ TagTotalRows(tag_disk) <= MaxTagRows
    /\ main_pc = "start"
    /\ arg_pos = 1
    /\ results = <<>>
    /\ tag_disk0 = tag_disk
    /\ unreadable = {}
    /\ rewritten = <<>>
    /\ DupIdle
    /\ FixIdle
    /\ SpkIdle
    /\ ExtIdle

\* if len(sys.argv) < 2: usage, sys.exit(1); else results.txt is opened
MainStart ==
    /\ main_pc = "start"
    /\ main_pc' = IF argv = <<>> THEN "exit" ELSE "loop"
    /\ UNCHANGED <<argv, arg_pos, tag_disk, results, tag_disk0, unreadable, rewritten>>
    /\ UNCHANGED not_main_vars

\* one iteration of the for loop on a path that is not a file
MainFileNotFound ==
    /\ main_pc = "loop"
    /\ arg_pos <= Len(argv)
    /\ ~tag_disk[argv[arg_pos]].isfile
    /\ results' = Append(results, not_found_entry(argv[arg_pos]))
    /\ arg_pos' = next_arg(arg_pos, argv, TRUE)
    /\ UNCHANGED <<main_pc, argv, tag_disk, tag_disk0, unreadable, rewritten>>
    /\ UNCHANGED not_main_vars

\* one iteration of the for loop on a file: process_csv, then the write
MainProcessCsv ==
    /\ main_pc = "loop"
    /\ arg_pos <= Len(argv)
    /\ tag_disk[argv[arg_pos]].isfile
    /\ \E read_ok \in BOOLEAN :
        LET f == argv[arg_pos]
            r == process_csv(tag_disk[f].rows, f)
        IN  /\ IF ~read_ok
               THEN /\ results' = results \o <<processing_entry(f), error_reading_entry(f)>>
                    /\ unreadable' = unreadable \cup {arg_pos}
               ELSE /\ results' = results \o r.log
                                    \o (IF write_wanted(r.change_flag, read_ok)
                                        THEN <<updated_entry(f)>> ELSE <<>>)
                    /\ unreadable' = unreadable
            /\ IF write_wanted(r.change_flag, read_ok)
               THEN /\ tag_disk' = [tag_disk EXCEPT ![f].rows = r.rows]
                    /\ rewritten' = Append(rewritten, f)
               ELSE UNCHANGED <<tag_disk, rewritten>>
            /\ arg_pos' = next_arg(arg_pos, argv, read_ok)
    /\ UNCHANGED <<main_pc, argv, tag_disk0>>
    /\ UNCHANGED not_main_vars

\* the for loop is over: results.txt is closed
MainDone ==
    /\ main_pc = "loop"
    /\ arg_pos > Len(argv)
    /\ main_pc' = "done"
    /\ UNCHANGED <<argv, arg_pos, tag_disk, results, tag_disk0, unreadable, rewritten>>
    /\ UNCHANGED not_main_vars

NextMain ==
    \/ MainStart
    \/ MainFileNotFound
    \/ MainProcessCsv
    \/ MainDone

SpecMain == InitMain /\ [][NextMain]_vars

----------------------------------------------------------------------------
(* Vocabulary of the file-level Tag Repair properties *)

\* an iteration of main's for loop is being taken
LoopStep == main_pc = "loop" /\ arg_pos <= Len(argv) /\ arg_pos' # arg_pos

\* what the step appended to results.txt
NewEntries == SubSeq(results', Len(results) + 1, Len(results'))

\* the translation cell of the row is one the repair function changes
ChangedByRepair(row) == Len(row) >= 4 /\ fix_broken_tags(row[4]).changed

ChangedRows(rows) == {n \in 1..Len(rows) : ChangedByRepair(rows[n])}

\* rows with every translation cell the repair changes replaced
Repaired(rows) ==
    [n \in 1..Len(rows) |->
        IF ChangedByRepair(rows[n])
        THEN [c \in 1..Len(rows[n]) |->
                IF c = 4 THEN fix_broken_tags(rows[n][4]).text ELSE rows[n][c]]
        ELSE rows[n]]

\* the arguments results.txt has a section for, in order
Sections ==
    LET heads == SelectSeq(results, LAMBDA e : e.kind \in {"processing", "not_found"})
    IN  [n \in 1..Len(heads) |-> heads[n].file]

\* indices into argv at which the file was read
ReadAt(f) ==
    {n \in 1..Len(argv) : argv[n] = f /\ tag_disk0[f].isfile /\ n \notin unreadable}

----------------------------------------------------------------------------
(* C17 *)

\* one iteration of main on a file that is read
RewrittenIffARowChanged ==
    (LoopStep /\ tag_disk[argv[arg_pos]].isfile /\ arg_pos \notin unreadable') =>
        LET f       == argv[arg_pos]
            before  == tag_disk[f].rows
            after   == tag_disk'[f].rows
            row_log == SelectSeq(NewEntries, LAMBDA e : e.kind = "row")
        IN  /\ (rewritten' = Append(rewritten, f)) <=> (ChangedRows(before) # {})
            /\ ChangedRows(before) = {} =>
                  rewritten' = rewritten /\ tag_disk' = tag_disk
            /\ \A g \in Files \ {f} : tag_disk'[g] = tag_disk[g]
            /\ Len(after) = Len(before)
            /\ \A n \in 1..Len(before) :
                  IF n \in ChangedRows(before)
                  THEN /\ Len(after[n]) = Len(before[n])
                       /\ after[n][4] = fix_broken_tags(before[n][4]).text
                       /\ after[n][4] # before[n][4]
                       /\ \A c \in 1..Len(before[n]) :
                             c # 4 => after[n][c] = before[n][c]
                  ELSE after[n] = before[n]
            /\ \A n \in 1..Len(before) :
                  Len(before[n]) < 4 => after[n] = before[n]
            /\ Len(row_log) = Cardinality(ChangedRows(before))
            /\ \A k \in 1..Len(row_log) :
                  /\ row_log[k].row_number \in ChangedRows(before)
                  /\ row_log[k].original = before[row_log[k].row_number][4]
                  /\ row_log[k].fixed = after[row_log[k].row_number][4]
                  /\ k > 1 => row_log[k - 1].row_number < row_log[k].row_number

----------------------------------------------------------------------------
(* C18 *)

\* an iteration on a missing or unreadable file logs it and writes nothing
FailedArgumentOnlyLogged ==
    (LoopStep /\ (~tag_disk[argv[arg_pos]].isfile \/ arg_pos \in unreadable')) =>
        /\ tag_disk' = tag_disk
        /\ rewritten' = rewritten
        /\ NewEntries # <<>>
        /\ NewEntries[Len(NewEntries)] =
              IF tag_disk[argv[arg_pos]].isfile
              THEN error_reading_entry(argv[arg_pos])
              ELSE not_found_entry(argv[arg_pos])
        /\ arg_pos' = arg_pos + 1
        /\ main_pc' = "loop"

\* at the end of the run every argument was processed, the files that
\* were read are repaired, the others are as they were
OtherArgumentsProcessed ==
    main_pc = "done" =>
        /\ Sections = argv
        /\ \A f \in Files :
              IF ReadAt(f) # {}
              THEN /\ tag_disk[f].rows = Repaired(tag_disk0[f].rows)
                   /\ ChangedRows(tag_disk0[f].rows) # {} => f \in InSeq(rewritten)
              ELSE /\ tag_disk[f] = tag_disk0[f]
                   /\ f \notin InSeq(rewritten)

----------------------------------------------------------------------------
(* Part 3: Tools/SpeakerFiller.py, process_single_csv on one file.         *)
(* The file is A.csv; file_index is 0 and total_files is 1.  The JSON      *)
(* data is taken in its list shape, a list of records with GmdIndex, the   *)
(* English NPC name and NpcId; {} (a failed load) finds nothing, like the  *)
(* empty list.  int() is computed on decimal digits.  overall_progress is  *)
(* a floating point computation: the message is put, its number is not     *)
(* computed.                                                               *)

MaxSpkRows == 3

dot_arc == <<".", "a", "r", "c">>

mss_json == <<".", "m", "s", "s", ".", "j", "s", "o", "n">>

\* str.lower() on the letters the cells below contain
lower(t) ==
    [n \in 1..Len(t) |->
        CASE t[n] = "A" -> "a"
          [] t[n] = "R" -> "r"
          [] t[n] = "C" -> "c"
          [] OTHER -> t[n]]

Digits == <<"0", "1", "2", "3", "4", "5", "6", "7", "8", "9">>

RECURSIVE digits_value(_)
digits_value(t) ==
    IF t = <<>> THEN 0
    ELSE 10 * digits_value(SubSeq(t, 1, Len(t) - 1))
         + (CHOOSE d \in 1..Len(Digits) : Digits[d] = t[Len(t)]) - 1

\* int(cell.strip()): the value, or the exception
parse_int(cell) ==
    LET t == strip(cell)
    IN  IF t # <<>> /\ \A n \in 1..Len(t) : \E d \in 1..Len(Digits) : Digits[d] = t[n]
        THEN [ok |-> TRUE, value |-> digits_value(t)]
        ELSE [ok |-> FALSE, value |-> 0]

\* get_npc_value on a list of records: the first record with the index
get_npc_value(json_data, csv_gmd_index) ==
    LET hits == SelectSeq(json_data, LAMBDA rec : rec.GmdIndex = csv_gmd_index)
    IN  IF hits = <<>> THEN <<>>
        ELSE IF strip(Head(hits).En) # <<>> THEN strip(Head(hits).En)
        ELSE IF Head(hits).NpcId # <<>> THEN Head(hits).NpcId
        ELSE <<>>

\* while len(row) < width: row.append("")
pad(row, width) ==
    IF Len(row) < width THEN row \o [k \in 1..(width - Len(row)) |-> empty_cell]
    ELSE row

\* a message on ui_queue
msg(type, content, value) == [type |-> type, content |-> content, value |-> value]

\* the two progress messages that end an iteration
progress(file_progress) ==
    <<msg("file_progress", "", file_progress), msg("overall_progress", "float", 0)>>

\* faulty variant: the third column is not looked at
skip_row_never(row) == FALSE

\* if len(row) < 3 or not row[2].strip(): pass
skip_row(row) == Len(row) < 3 \/ strip(col(row, 2)) = <<>>

\* the body of the normal-mode loop for one row: the row after it, the
\* cache after it and the log messages it puts
normal_row(row0, jindex, loads, content, cache) ==
    LET row           == pad(row0, 9)
        arc_entry     == strip(col(row, 6))
        base_id       == SubSeq(arc_entry, 1, Len(arc_entry) - 4)
        json_filename == base_id \o mss_json
        cached        == json_filename \in cache
        json_data     == IF cached \/ loads THEN content ELSE <<>>
        csv_gmd_index == parse_int(col(row, 7))
        untouched     == [row |-> row, cache |-> cache, logs |-> <<>>]
    IN  IF skip_row(row) THEN untouched
        ELSE IF strip(col(row, 8)) # <<>> THEN untouched
        ELSE IF ~endswith(lower(arc_entry), dot_arc) THEN untouched
        ELSE IF json_filename \notin jindex
        THEN [row |-> row, cache |-> cache,
              logs |-> <<msg("log", "File not found", 0)>>]
        ELSE [row   |-> IF csv_gmd_index.ok /\ strip(col(row, 8)) = <<>>
                        THEN [row EXCEPT ![9] = get_npc_value(json_data, csv_gmd_index.value)]
                        ELSE row,
              cache |-> IF ~cached /\ loads THEN cache \cup {json_filename} ELSE cache,
              logs  |-> (IF ~cached /\ ~loads
                         THEN <<msg("log", "Error reading JSON file", 0)>> ELSE <<>>)
                        \o (IF ~csv_gmd_index.ok
                            THEN <<msg("log", "Invalid gmd index in CSV", 0)>> ELSE <<>>)]

\* faulty variant: the last column is filled whatever it holds
fallback_fill_wanted_always(row) == strip(row[1]) # <<>>

\* not (not row[0].strip()) and not row[-1].strip()
fallback_fill_wanted(row) == strip(row[1]) # <<>> /\ strip(row[Len(row)]) = <<>>

\* the body of the fallback-mode loop for row j
fallback_row(row0, width, json_data, j) ==
    LET row == pad(row0, width)
    IN  IF fallback_fill_wanted(row)
        THEN [row EXCEPT ![Len(row)] = get_npc_value(json_data, j - 1)]
        ELSE row

\* the cells of the rows
SpkKey == <<"k">>

SpkText == <<"t">>

\* nine columns, text, a speaker
SpkRowFilled ==
    <<SpkKey, empty_cell, SpkText, empty_cell, empty_cell, empty_cell,
      <<"q", ".", "a", "r", "c">>, <<"0">>, <<"S">>>>
\* nine columns, no text in the third column, no speaker
SpkRowNoText ==
    <<SpkKey, empty_cell, <<" ">>, empty_cell, empty_cell, empty_cell,
      <<"q", ".", "a", "r", "c">>, <<"0">>, empty_cell>>
\* eight columns, text, the arc entry in capitals
SpkRowNoSpeaker ==
    <<SpkKey, empty_cell, SpkText, empty_cell, empty_cell, empty_cell,
      <<"q", ".", "A", "R", "C", " ">>, <<" ", "0">>>>
\* nine columns, no first column, text, not a number as index, blank speaker
SpkRowBadIndex ==
    <<empty_cell, empty_cell, SpkText, empty_cell, empty_cell, empty_cell,
      <<"q", ".", "a", "r", "c">>, <<"x">>, <<" ">>>>
\* a header of two columns
SpkHeader == << <<"i", "d">>, <<"t", "e", "x", "t">> >>
\* four columns, the last one filled
SpkRowShortFilled == <<SpkKey, SpkText, empty_cell, <<"S">>>>
\* two columns
SpkRowShort == <<SpkKey, SpkText>>

SpkRowPool ==
    {SpkRowFilled, SpkRowNoText, SpkRowNoSpeaker, SpkRowBadIndex, SpkHeader,
     SpkRowShortFilled, SpkRowShort}

\* q.mss.json (from the arc entry) and A.mss.json (from the name of the file)
JsonNames == {<<"q">> \o mss_json, <<"A">> \o mss_json}

JsonContents ==
    { <<[GmdIndex |-> 0, En |-> <<"N">>, NpcId |-> <<>>]>>,
      <<[GmdIndex |-> 0, En |-> <<" ">>, NpcId |-> <<"7">>],
        [GmdIndex |-> 1, En |-> <<"N", " ">>, NpcId |-> <<>>]>> }

InitSpk ==
    /\ spk_disk \in SeqsUpTo(SpkRowPool, MaxSpkRows)
    /\ json_index \in SUBSET JsonNames
    /\ json_loads \in BOOLEAN
    /\ json_content \in JsonContents
    /\ spk_pc = "read"
    /\ spk_rows = <<>>
    /\ spk_mode = ""
    /\ spk_i = 0
    /\ json_data_now = <<>>
    /\ json_cache = {}
    /\ ui_queue = <<>>
    /\ spk_read = <<>>
    /\ DupIdle
    /\ FixIdle
    /\ MainIdle
    /\ ExtIdle

\* current_file message, the read, the empty file test, the mode
ProcessSingleCsvRead ==
    /\ spk_pc = "read"
    /\ \E read_ok \in BOOLEAN :
        IF ~read_ok
        THEN /\ ui_queue' = ui_queue \o <<msg("current_file", "A.csv", 0),
                                           msg("log", "Error reading CSV file", 0)>>
             /\ spk_pc' = "done"
             /\ UNCHANGED <<spk_rows, spk_mode, spk_read>>
        ELSE IF spk_disk = <<>>
        THEN /\ ui_queue' = ui_queue \o <<msg("current_file", "A.csv", 0),
                                           msg("log", "CSV file is empty", 0)>>
             /\ spk_pc' = "done"
             /\ UNCHANGED <<spk_rows, spk_mode, spk_read>>
        ELSE /\ ui_queue' = Append(ui_queue, msg("current_file", "A.csv", 0))
             /\ spk_rows' = spk_disk
             /\ spk_read' = spk_disk
             /\ spk_mode' = IF /\ Len(spk_disk[1]) >= 7
                               /\ endswith(lower(strip(col(spk_disk[1], 6))), dot_arc)
                            THEN "normal" ELSE "fallback"
             /\ spk_pc' = IF spk_mode' = "normal" THEN "normal" ELSE "fallback_json"
    /\ spk_i' = 0
    /\ UNCHANGED <<spk_disk, json_index, json_loads, json_content, json_data_now,
                   json_cache>>
    /\ UNCHANGED not_spk_vars

\* one iteration of: for i, row in enumerate(rows)
ProcessSingleCsvNormalRow ==
    /\ spk_pc = "normal"
    /\ spk_i < Len(spk_rows)
    /\ LET r == normal_row(col(spk_rows, spk_i), json_index, json_loads,
                           json_content, json_cache)
       IN  /\ spk_rows' = [spk_rows EXCEPT ![spk_i + 1] = r.row]
           /\ json_cache' = r.cache
           /\ ui_queue' = ui_queue \o r.logs
                            \o progress((100 * (spk_i + 1)) \div Len(spk_rows))
    /\ spk_i' = spk_i + 1
    /\ UNCHANGED <<spk_pc, spk_disk, spk_mode, json_index, json_loads, json_content,
                   json_data_now, spk_read>>
    /\ UNCHANGED not_spk_vars

\* the normal-mode loop is over
ProcessSingleCsvNormalDone ==
    /\ spk_pc = "normal"
    /\ spk_i >= Len(spk_rows)
    /\ spk_pc' = "write"
    /\ UNCHANGED <<spk_disk, spk_rows, spk_mode, spk_i, json_index, json_loads,
                   json_content, json_data_now, json_cache, ui_queue, spk_read>>
    /\ UNCHANGED not_spk_vars

\* fallback mode: the JSON file named after the CSV file, then
\* rows[0].extend(["english", "speaker"])
ProcessSingleCsvFallbackJson ==
    /\ spk_pc = "fallback_json"
    /\ LET json_filename == <<"A">> \o mss_json
       IN  IF json_filename \notin json_index
           THEN /\ ui_queue' = Append(ui_queue, msg("log", "JSON file not found", 0))
                /\ json_data_now' = <<>>
                /\ UNCHANGED json_cache
           ELSE IF json_filename \in json_cache \/ json_loads
           THEN /\ json_data_now' = json_content
                /\ json_cache' = json_cache \cup {json_filename}
                /\ UNCHANGED ui_queue
           ELSE /\ ui_queue' = Append(ui_queue, msg("log", "Error reading JSON file", 0))
                /\ json_data_now' = <<>>
                /\ UNCHANGED json_cache
    /\ spk_rows' = [spk_rows EXCEPT ![1] = spk_rows[1] \o <<<<"e", "n", "g", "l", "i", "s", "h">>,
                                                           <<"s", "p", "e", "a", "k", "e", "r">>>>]
    /\ spk_i' = 1
    /\ spk_pc' = "fallback"
    /\ UNCHANGED <<spk_disk, spk_mode, json_index, json_loads, json_content, spk_read>>
    /\ UNCHANGED not_spk_vars

\* one iteration of: for j in range(1, len(rows))
ProcessSingleCsvFallbackRow ==
    /\ spk_pc = "fallback"
    /\ spk_i < Len(spk_rows)
    /\ spk_rows' = [spk_rows EXCEPT ![spk_i + 1] =
                       fallback_row(col(spk_rows, spk_i), Len(spk_rows[1]),
                                    json_data_now, spk_i)]
    /\ ui_queue' = ui_queue
                     \o progress((100 * spk_i)
                                   \div (IF Len(spk_rows) - 1 > 0
                                         THEN Len(spk_rows) - 1 ELSE 1))
    /\ spk_i' = spk_i + 1
    /\ UNCHANGED <<spk_pc, spk_disk, spk_mode, json_index, json_loads, json_content,
                   json_data_now, json_cache, spk_read>>
    /\ UNCHANGED not_spk_vars

\* the fallback-mode loop is over
ProcessSingleCsvFallbackDone ==
    /\ spk_pc = "fallback"
    /\ spk_i >= Len(spk_rows)
    /\ spk_pc' = "write"
    /\ UNCHANGED <<spk_disk, spk_rows, spk_mode, spk_i, json_index, json_loads,
                   json_content, json_data_now, json_cache, ui_queue, spk_read>>
    /\ UNCHANGED not_spk_vars

\* the file is overwritten, or the write raises; file_progress 100
ProcessSingleCsvWrite ==
    /\ spk_pc = "write"
    /\ \E write_ok \in BOOLEAN :
        IF write_ok
        THEN /\ spk_disk' = spk_rows
             /\ ui_queue' = ui_queue \o <<msg("log", "Replaced original file", 0),
                                           msg("file_progress", "", 100)>>
        ELSE /\ spk_disk' = spk_disk
             /\ ui_queue' = ui_queue \o <<msg("log", "Error writing modified CSV", 0),
                                           msg("file_progress", "", 100)>>
    /\ spk_pc' = "done"
    /\ UNCHANGED <<spk_rows, spk_mode, spk_i, json_index, json_loads, json_content,
                   json_data_now, json_cache, spk_read>>
    /\ UNCHANGED not_spk_vars

NextSpk ==
    \/ ProcessSingleCsvRead
    \/ ProcessSingleCsvNormalRow
    \/ ProcessSingleCsvNormalDone
    \/ ProcessSingleCsvFallbackJson
    \/ ProcessSingleCsvFallbackRow
    \/ ProcessSingleCsvFallbackDone
    \/ ProcessSingleCsvWrite

SpecSpk == InitSpk /\ [][NextSpk]_vars

----------------------------------------------------------------------------
(* C19 *)

\* the cell at column c (1-based) of a row, empty when the row is shorter
CellOr(row, c) == IF c <= Len(row) THEN row[c] ELSE empty_cell

NonBlank(cell) == \E n \in 1..Len(cell) : cell[n] \notin Whitespace

\* the speaker column (1-based) of row n: the ninth in normal mode, the
\* last of the padded row in fallback mode
SpeakerColumn(n) ==
    IF spk_mode = "normal" THEN 9
    ELSE IF Len(spk_read[n]) > Len(spk_read[1]) + 2 THEN Len(spk_read[n])
    ELSE Len(spk_read[1]) + 2

\* the claim on a list of rows that stems from the rows read
SpeakersKept(rows) ==
    /\ Len(rows) = Len(spk_read)
    /\ \A n \in 1..Len(rows) :
          /\ NonBlank(CellOr(spk_read[n], SpeakerColumn(n))) =>
                CellOr(rows[n], SpeakerColumn(n)) = spk_read[n][SpeakerColumn(n)]
          /\ \A c \in 1..Len(spk_read[n]) :
                NonBlank(spk_read[n][c]) => CellOr(rows[n], c) = spk_read[n][c]
          /\ (spk_mode = "normal" /\ ~NonBlank(CellOr(spk_read[n], 3))) =>
                CellOr(rows[n], 9) = CellOr(spk_read[n], 9)

\* C19: in normal and in fallback mode a row whose speaker column already
\* holds text other than whitespace keeps that value, in the rows being
\* processed and in the file written; in normal mode the speaker column of
\* a row whose third column is empty is never filled.
C19_FilledSpeakerKeptEmptyTextNotFilled ==
    spk_mode # "" =>
        /\ SpeakersKept(spk_rows)
        /\ spk_disk # spk_read => spk_disk = spk_rows /\ SpeakersKept(spk_disk)

C19_Witness ==
    /\ spk_pc = "done"
    /\ spk_mode = "normal"
    /\ spk_read = <<SpkRowFilled, SpkRowNoText, SpkRowNoSpeaker>>
    /\ Len(spk_disk) = 3
    /\ CellOr(spk_disk[1], 9) = <<"S">>
    /\ CellOr(spk_disk[2], 9) = empty_cell
    /\ CellOr(spk_disk[3], 9) = <<"N">>

\* the fallback case of C19: the header is extended, a row that ends in a
\* speaker keeps it, a shorter row is filled
C19_FallbackReached ==
    /\ spk_pc = "done"
    /\ spk_mode = "fallback"
    /\ spk_read = <<SpkHeader, SpkRowShortFilled, SpkRowShort>>
    /\ Len(spk_disk) = 3
    /\ spk_disk[2] = SpkRowShortFilled
    /\ spk_disk[3] = <<SpkKey, SpkText, empty_cell, <<"N">>>>

----------------------------------------------------------------------------
(* C21 *)

\* until the analysis has returned, the rows held are the rows of the files
\* and nothing was written
NothingRemovedBeforeAnalysis ==
    pc \in {"load", "analyze"} =>
        /\ disk = disk0
        /\ written = {}
        /\ \A n \in 1..Len(file_data) : file_data[n].rows = disk0[file_data[n].file]

\* when the analysis returns, the rows are still as loaded and every group
\* is decided on them, marked neighbours counted
DecidedOnRowsAsLoaded ==
    JustAnalysed =>
        /\ file_data = loaded
        /\ disk = disk0
        /\ \A n \in 1..Len(loaded) : loaded[n].rows = disk0[loaded[n].file]
        /\ \A x \in GroupCoords :
              Cardinality(GroupOf(x)) > 1 =>
                  \E s \in Survivors(GroupOf(x)) : BestOf(s, TieBreakSet(GroupOf(x)))

\* decisions are taken in the analysis step only; rows are removed and
\* files written only after it, the decisions left as they are
DecisionsBeforeDeletions ==
    /\ (deletion_set' # deletion_set \/ mismatch_log' # mismatch_log) =>
          (pc = "analyze" \/ pc' = "start")
    /\ (\/ disk' # disk
        \/ \E n \in 1..Len(file_data) :
              n <= Len(file_data') /\ file_data'[n].rows # file_data[n].rows) =>
          /\ pc = "delete"
          /\ deletion_set' = deletion_set
          /\ mismatch_log' = mismatch_log

\* C21: keys, context scores and winners are computed from the rows exactly
\* as loaded; no row is removed from a row list and no file is written
\* until every duplicate group is resolved, so a neighbour that is itself
\* marked for deletion still counts toward a candidate's context score.
C21_ResolvedBeforeAnyDeletion ==
    /\ [](NothingRemovedBeforeAnalysis /\ DecidedOnRowsAsLoaded)
    /\ [][DecisionsBeforeDeletions]_vars

\* a winner that owes its score to a neighbour marked for deletion: without
\* that neighbour another candidate would stand at the same score
C21_Witness ==
    /\ pc = "done"
    /\ \E s \in GroupCoords : \E d \in deletion_set :
        /\ s \notin deletion_set
        /\ d[1] = s[1]
        /\ d[2] = s[2] - 1
        /\ NeighbourMatches(s) = 1
        /\ s[1] \in written
        /\ \E c \in TieBreakSet(GroupOf(s)) :
              c # s /\ NeighbourMatches(c) = 0 /\ c[2] < s[2]

----------------------------------------------------------------------------
(* C29 *)

\* s is t with some of its elements left out, order kept
RECURSIVE IsSubSeq(_, _)
IsSubSeq(s, t) ==
    IF s = <<>> THEN TRUE
    ELSE IF t = <<>> THEN FALSE
    ELSE IF Head(s) = Head(t) THEN IsSubSeq(Tail(s), Tail(t))
    ELSE IsSubSeq(s, Tail(t))

\* a file changes only by losing whole rows, and only if it has marked rows
OnlyWholeRowsRemoved ==
    \A f \in Files :
        (disk'[f] # disk[f] \/ (f \in written' /\ f \notin written)) =>
            /\ pc = "delete"
            /\ MarkedIn(deletion_set, f) # {}
            /\ IsSubSeq(disk'[f], disk[f])
            /\ Len(disk'[f]) < Len(disk[f])

\* at the end of a run the files without a marked row are as they were and
\* the rows left anywhere are rows the file had, cell for cell
UnmarkedFilesUntouched ==
    pc = "done" =>
        \A f \in Files :
            /\ MarkedIn(deletion_set, f) = {} => f \notin written /\ disk[f] = disk0[f]
            /\ IsSubSeq(disk[f], disk0[f])
            /\ \A n \in 1..Len(file_data) :
                  file_data[n].file = f => IsSubSeq(file_data[n].rows, disk0[f])

\* C29: a file none of whose rows is in the deletion set is never
\* rewritten, and no cell of a surviving row is edited: rows are removed
\* whole, nothing is copied or merged from a deleted duplicate.
C29_OnlyWholeRowsRemoved ==
    [](UnmarkedFilesUntouched) /\ [][OnlyWholeRowsRemoved]_vars

\* the winner keeps its untrimmed cells and its own translation, the file
\* without a marked row is not written
C29_Witness ==
    /\ pc = "done"
    /\ run = "first"
    /\ disk0["A.csv"] = <<RowB, RowA>>
    /\ disk["A.csv"] = <<RowB>>
    /\ written = {"A.csv"}
    /\ disk0["B.csv"] = <<RowY>>
    /\ disk["B.csv"] = <<RowY>>
    /\ dict_keys(loaded) = {"A.csv", "B.csv"}

----------------------------------------------------------------------------
(* C22 *)

\* the index goes up by one in every iteration and changes in no other step
IndexAdvancesByOne ==
    /\ i_now' # i_now => tag_pc = "scan" /\ i_now < Len(lines_now)
    /\ (tag_pc = "scan" /\ i_now < Len(lines_now)) => i_now' = i_now + 1

\* the index is the number of iterations done; it never passes the number
\* of lines of the input, and the list of lines never grows
AtMostOneIterationPerLine ==
    tag_pc \in {"scan", "returned"} =>
        /\ i_now <= Len(InputLines)
        /\ Len(lines_now) <= Len(InputLines)
        /\ i_now <= Len(lines_now)

\* C22: fix_broken_tags visits the line indices in strictly increasing
\* order, one further after every line whether or not a fix was applied; it
\* does not look again at the line it just modified and does not start
\* over, and it returns on every input after at most as many iterations as
\* the input has lines.
C22_OnePassThenReturn ==
    /\ [][IndexAdvancesByOne]_vars
    /\ [](AtMostOneIterationPerLine)
    /\ <>(tag_pc = "returned")

\* the scan went on at the next index after a fix and has ended
C22_Witness ==
    /\ tag_pc = "returned"
    /\ text_in = NpcText
    /\ fixes = 1
    /\ i_now = 2
    /\ Len(lines_now) = 2

----------------------------------------------------------------------------
(* C23 *)

\* the line begins, leading whitespace apart, with a run of characters
\* other than whitespace that ends in ">"
BeginsWithRunToGt(l) ==
    LET k == Len(l) - Len(lstrip(l))
    IN  \E p \in (k + 1)..Len(l) :
            /\ l[p] = ">"
            /\ \A q \in (k + 1)..p : l[q] \notin Whitespace

\* one iteration on a token line: without a usable candidate nothing
\* changes, and what is moved comes from the candidate line
CandidateOrNothing ==
    (/\ tag_pc = "scan"
     /\ i_now < Len(lines_now)
     /\ TokenLine(col(lines_now, i_now)))
    => LET ls == lines_now
           j  == Candidate(ls, i_now)
       IN  /\ (j = Len(ls) \/ ~BeginsWithRunToGt(col(ls, j)))
                => /\ lines_now' = ls
                   /\ modified_now' = modified_now
           /\ lines_now' # ls
                => /\ j < Len(ls)
                   /\ \A n \in 0..(j - 1) :
                         n # i_now => col(lines_now', n) = col(ls, n)
                   /\ \A n \in (i_now + 1)..(j - 1) : Blank(col(ls, n))
                   /\ \E m \in 1..Len(lstrip(col(ls, j))) :
                         col(lines_now', i_now) =
                            rstrip(col(ls, i_now)) \o <<" ">>
                               \o SubSeq(lstrip(col(ls, j)), 1, m)

\* C23: the candidate second half of a token line is the first line after
\* it that is not whitespace-only, however many blank lines lie between;
\* if there is no such line, or it does not begin (leading whitespace
\* apart) with a non-whitespace run ending in ">", the iteration modifies
\* no line, deletes no line and leaves the changed flag as it was.
C23_CandidateIsFirstNonBlankOrNoChange == [][CandidateOrNothing]_vars

\* the token line of "<ITEM\n\na a>" has been examined: its candidate is
\* the third line, which does not begin with a run ending in ">"
C23_Witness ==
    /\ tag_pc = "scan"
    /\ text_in = StrayText
    /\ i_now = 1
    /\ ~modified_now
    /\ lines_now = InputLines
    /\ Candidate(lines_now, 0) = 2
    /\ ~BeginsWithRunToGt(col(lines_now, 2))

----------------------------------------------------------------------------
(* C27 *)

\* the characters of a text that are not whitespace, in order; the line
\* boundaries are whitespace
NonWhitespace(t) ==
    SelectSeq(t, LAMBDA c : c \notin Whitespace /\ c \notin LineBreaks)

\* the lines held by the loop, put together
LinesText == join(lines_now)

\* C27: the non-whitespace characters of the text, read in order, are the
\* same in the input, in the lines at every point of the scan and in the
\* returned text: a repair moves a fragment across a line boundary and
\* changes whitespace only; the number of lines never exceeds the number
\* of lines of the input.
C27_NonWhitespaceConserved ==
    /\ tag_pc = "scan" =>
          /\ NonWhitespace(LinesText) = NonWhitespace(text_in)
          /\ Len(lines_now) <= Len(InputLines)
    /\ Returned =>
          /\ NonWhitespace(returned.text) = NonWhitespace(text_in)
          /\ Len(splitlines(returned.text)) <= Len(InputLines)

\* "<NPC\n007> and more text" came back as "<NPC 007>\n and more text"
C27_Witness ==
    /\ Returned
    /\ text_in = NpcText
    /\ returned.changed
    /\ returned.text # text_in
    /\ SubSeq(returned.text, 1, 10) =
          <<"<", "N", "P", "C", " ", "0", "0", "7", ">", "\n">>
    /\ NonWhitespace(returned.text) = NonWhitespace(NpcText)

----------------------------------------------------------------------------
(* C28 *)

\* fix_broken_tags applied to the text that was returned
SecondPass == fix_broken_tags(returned.text)

\* C28 as stated: applying fix_broken_tags to the returned text returns
\* that text unchanged, with changed = false.
C28_SecondPassReturnsSameText ==
    Returned => SecondPass = [text |-> returned.text, changed |-> FALSE]

\* C28: applying fix_broken_tags to the returned text moves no fragment:
\* it returns changed = false and the lines of that text joined by "\n",
\* which is that text itself unless it ends in a line boundary.
C28_SecondPassMovesNothing ==
    Returned =>
        /\ SecondPass.changed = FALSE
        /\ SecondPass.text = join(splitlines(returned.text))
        /\ (returned.text = <<>> \/ returned.text[Len(returned.text)] # "\n")
              => SecondPass.text = returned.text

\* both broken tags of "<ITEM\na>\n<ITEM\na>" were repaired by the one
\* pass, and a second pass returns the result as it is
C28_Witness ==
    /\ Returned
    /\ text_in = TwoTagsText
    /\ returned.changed
    /\ returned.text =
          <<"<", "I", "T", "E", "M", " ", "a", ">", "\n",
            "<", "I", "T", "E", "M", " ", "a", ">">>
    /\ SecondPass = [text |-> returned.text, changed |-> FALSE]

----------------------------------------------------------------------------
(* Part 4: Tools/hellish-filler.py *)

MaxHfSections == 2
MaxHfRows == 2

\* re.fullmatch(r'\s*[^:]+:\s*', line): one colon, something before it,
\* nothing but whitespace after it
name_only(line) ==
    \E p \in 2..Len(line) :
        /\ line[p] = ":"
        /\ \A q \in 1..(p - 1) : line[q] # ":"
        /\ \A q \in (p + 1)..Len(line) : line[q] \in Whitespace

\* re.match(r'^(\s*[^:]+:\s+)(.+)$', line): through the first colon and the
\* whitespace after it (group 1), then at least one character (group 2)
name_then_dialogue(line) ==
    LET colons == {p \in 1..Len(line) : line[p] = ":"}
        p  == IF colons = {} THEN 0
              ELSE CHOOSE x \in colons : \A y \in colons : x <= y
        after == SubSeq(line, p + 1, Len(line))
        w  == Len(after) - Len(lstrip(after))
        g1 == IF w = Len(after) THEN w - 1 ELSE w
    IN  IF p >= 2 /\ g1 >= 1
        THEN [matched |-> TRUE, group2 |-> SubSeq(line, p + g1 + 1, Len(line))]
        ELSE [matched |-> FALSE, group2 |-> <<>>]

\* which branch of process_prefix asks for the decision: "line" (case 1),
\* "lead" (case 2) or "none"
prefix_case(english_text) ==
    LET lines == splitlines(english_text)
    IN  IF lines = <<>> THEN "none"
        ELSE IF name_only(lines[1]) THEN "line"
        ELSE IF name_then_dialogue(lines[1]).matched THEN "lead"
        ELSE "none"

\* faulty variant: the prefix is removed whatever the decision
prefix_removed_always(decision) == TRUE

\* if global_remove_prefixes:
prefix_removed(decision) == decision = "True"

\* process_prefix(english_text) under the decision held by the global flag
process_prefix(english_text, decision) ==
    LET lines == splitlines(english_text)
    IN  IF lines = <<>> THEN english_text
        ELSE IF prefix_case(english_text) = "line"
             THEN join(IF prefix_removed(decision) THEN Tail(lines) ELSE lines)
        ELSE IF prefix_case(english_text) = "lead"
             THEN join(IF prefix_removed(decision)
                       THEN [lines EXCEPT ![1] =
                               lstrip(name_then_dialogue(lines[1]).group2)]
                       ELSE lines)
        ELSE join(lines)

\* the dict appended to parsed_sections
parsed_section(sec, english_text) ==
    [identifier   |-> sec.identifier,
     read_index   |-> sec.read_index,
     english_text |-> english_text,
     original     |-> sec.original,
     matched      |-> FALSE]

\* faulty variant: a section that was applied is offered again
section_open_always(sec) == TRUE

\* if sec["matched"]: continue
section_open(sec) == ~sec.matched

\* the first section update_csv_files applies to the row, 0 if none
section_for(sections, row) ==
    LET fits == {n \in 1..Len(sections) :
                    /\ section_open(sections[n])
                    /\ strip(col(row, 6)) = sections[n].identifier
                    /\ strip(col(row, 7)) = sections[n].read_index}
    IN  IF Len(row) < 8 \/ fits = {} THEN 0
        ELSE CHOOSE n \in fits : \A y \in fits : n <= y

\* unmatched = [sec for sec in sections if not sec["matched"]], as written
unmatched_originals(sections) ==
    LET unmatched == SelectSeq(sections, LAMBDA sec : ~sec.matched)
    IN  [n \in 1..Len(unmatched) |-> unmatched[n].original]

\* the inputs: target keys, English texts, sections and CSV rows
HfIdentifier == <<"n", "1">>
HfReadIndexes == {<<"0">>, <<"1">>}

\* "x", "N: x"
HfPlainText == <<"x">>
HfLeadText == <<"N", ":", " ", "x">>

\* texts for the prefix decision: "", "x", "N:", "N: x", "N:x", "N:\nx",
\* "x\nN: x", " N :  x ", "N: :"
HfPrefixTexts ==
    {<<>>, HfPlainText, <<"N", ":">>, HfLeadText, <<"N", ":", "x">>,
     <<"N", ":", "\n", "x">>, <<"x", "\n", "N", ":", " ", "x">>,
     <<" ", "N", " ", ":", " ", " ", "x", " ">>, <<"N", ":", " ", ":">>}

\* the first line of the n-th section of the TXT file
HfSectionLine == <<"s1", "s2", "s3", "s4">>

\* what parse_sections takes from the n-th section: passed over, or a
\* target key and an English text
HfSectionsAt(n, texts) ==
    {[skip |-> TRUE, identifier |-> <<>>, read_index |-> <<>>,
      extracted |-> <<>>, original |-> <<HfSectionLine[n]>>]}
    \cup {[skip |-> FALSE, identifier |-> HfIdentifier, read_index |-> r,
           extracted |-> t, original |-> <<HfSectionLine[n]>>] :
             r \in HfReadIndexes, t \in texts}

HfTxtFiles(texts) ==
    UNION {{f \in [1..n -> UNION {HfSectionsAt(k, texts) : k \in 1..n}] :
               \A k \in 1..n : f[k] \in HfSectionsAt(k, texts)} :
           n \in 0..MaxHfSections}

HfRowPadded ==
    <<<<"0">>, <<"k">>, <<"j">>, <<"o", "l", "d">>, <<"g">>, <<"p">>,
      <<" ", "n", "1">>, <<"0", " ">>>>
HfRowOne ==
    <<<<"1">>, <<"k">>, <<"j">>, <<"o", "l", "d">>, <<"g">>, <<"p">>,
      <<"n", "1">>, <<"1">>>>
HfRowShort ==
    <<<<"0">>, <<"k">>, <<"j">>, <<"o", "l", "d">>, <<"g">>, <<"p">>,
      <<"n", "1">>>>
HfRowPool == {HfRowPadded, HfRowOne, HfRowShort}

HfRowLists(n) == UNION {[1..m -> HfRowPool] : m \in 0..n}

HfDisks ==
    {d \in [Files -> HfRowLists(MaxHfRows)] :
        Len(d["A.csv"]) + Len(d["B.csv"]) <= MaxHfRows}

HfStart(texts) ==
    /\ hf_pc = "parse"
    /\ global_remove_prefixes = "None"
    /\ hf_txt_in \in HfTxtFiles(texts)
    /\ hf_k = 0
    /\ hf_sections = <<>>
    /\ hf_file = 1
    /\ hf_rows = <<>>
    /\ hf_row = 1
    /\ hf_updated = FALSE
    /\ hf_txt = <<>>
    /\ hf_prompts = 0
    /\ hf_applied = <<>>
    /\ AllIdle
    /\ GmdIdle
    /\ GuiIdle

\* main(archive_folder, txt_file) is about to call parse_sections
InitHf ==
    /\ HfStart({HfPlainText, HfLeadText})
    /\ hf_disk \in HfDisks

\* parse_sections alone, over more English texts
InitHfParse ==
    /\ HfStart(HfPrefixTexts)
    /\ hf_disk = [f \in Files |-> <<>>]

\* one iteration of: for sec in sections, without the popup
HfParseSection ==
    /\ hf_pc = "parse"
    /\ hf_k < Len(hf_txt_in)
    /\ LET sec == hf_txt_in[hf_k + 1]
       IN  /\ sec.skip \/ prefix_case(sec.extracted) = "none"
                    \/ global_remove_prefixes # "None"
           /\ hf_sections' =
                IF sec.skip THEN hf_sections
                ELSE Append(hf_sections,
                            parsed_section(sec,
                                process_prefix(sec.extracted, global_remove_prefixes)))
    /\ hf_k' = hf_k + 1
    /\ UNCHANGED <<hf_pc, global_remove_prefixes, hf_txt_in, hf_disk, hf_file,
                   hf_rows, hf_row, hf_updated, hf_txt, hf_prompts, hf_applied>>
    /\ UNCHANGED not_hf_vars

\* one iteration of: for sec in sections, in which process_prefix shows
\* messagebox.askyesno and stores the answer
HfParseSectionAsk ==
    /\ hf_pc = "parse"
    /\ hf_k < Len(hf_txt_in)
    /\ LET sec == hf_txt_in[hf_k + 1]
       IN  /\ ~sec.skip
           /\ prefix_case(sec.extracted) # "none"
           /\ global_remove_prefixes = "None"
           /\ \E answer \in {"True", "False"} :
                /\ global_remove_prefixes' = answer
                /\ hf_sections' =
                     Append(hf_sections,
                            parsed_section(sec, process_prefix(sec.extracted, answer)))
    /\ hf_prompts' = hf_prompts + 1
    /\ hf_k' = hf_k + 1
    /\ UNCHANGED <<hf_pc, hf_txt_in, hf_disk, hf_file, hf_rows, hf_row,
                   hf_updated, hf_txt, hf_applied>>
    /\ UNCHANGED not_hf_vars

\* return parsed_sections; main calls update_csv_files
HfParseReturn ==
    /\ hf_pc = "parse"
    /\ hf_k >= Len(hf_txt_in)
    /\ hf_pc' = "update"
    /\ UNCHANGED <<global_remove_prefixes, hf_txt_in, hf_k, hf_sections, hf_disk,
                   hf_file, hf_rows, hf_row, hf_updated, hf_txt, hf_prompts,
                   hf_applied>>
    /\ UNCHANGED not_hf_vars

\* for csv_file in csv_files: updated = False; rows = load_csv_file(csv_file)
HfLoadFile ==
    /\ hf_pc = "update"
    /\ hf_file <= Len(HfFiles)
    /\ hf_rows' = hf_disk[HfFiles[hf_file]]
    /\ hf_row' = 1
    /\ hf_updated' = FALSE
    /\ hf_pc' = "rows"
    /\ UNCHANGED <<global_remove_prefixes, hf_txt_in, hf_k, hf_sections, hf_disk,
                   hf_file, hf_txt, hf_prompts, hf_applied>>
    /\ UNCHANGED not_hf_vars

\* one iteration of: for row in rows
HfUpdateRow ==
    /\ hf_pc = "rows"
    /\ hf_row <= Len(hf_rows)
    /\ LET n == section_for(hf_sections, hf_rows[hf_row])
       IN  IF n = 0
           THEN UNCHANGED <<hf_rows, hf_sections, hf_updated, hf_applied>>
           ELSE /\ hf_rows' = [hf_rows EXCEPT ![hf_row][4] = hf_sections[n].english_text]
                /\ hf_sections' = [hf_sections EXCEPT ![n].matched = TRUE]
                /\ hf_updated' = TRUE
                /\ hf_applied' = Append(hf_applied, <<n, HfFiles[hf_file], hf_row>>)
    /\ hf_row' = hf_row + 1
    /\ UNCHANGED <<hf_pc, global_remove_prefixes, hf_txt_in, hf_k, hf_disk, hf_file,
                   hf_txt, hf_prompts>>
    /\ UNCHANGED not_hf_vars

\* if updated: write_csv_file(csv_file, rows); on to the next file
HfFileDone ==
    /\ hf_pc = "rows"
    /\ hf_row > Len(hf_rows)
    /\ hf_disk' = IF hf_updated THEN [hf_disk EXCEPT ![HfFiles[hf_file]] = hf_rows]
                  ELSE hf_disk
    /\ hf_file' = hf_file + 1
    /\ hf_pc' = "update"
    /\ UNCHANGED <<global_remove_prefixes, hf_txt_in, hf_k, hf_sections, hf_rows,
                   hf_row, hf_updated, hf_txt, hf_prompts, hf_applied>>
    /\ UNCHANGED not_hf_vars

\* update_csv_files returns; main calls write_unmatched
HfUpdateReturn ==
    /\ hf_pc = "update"
    /\ hf_file > Len(HfFiles)
    /\ hf_pc' = "unmatched"
    /\ UNCHANGED <<global_remove_prefixes, hf_txt_in, hf_k, hf_sections, hf_disk,
                   hf_file, hf_rows, hf_row, hf_updated, hf_txt, hf_prompts,
                   hf_applied>>
    /\ UNCHANGED not_hf_vars

\* write_unmatched(sections, txt_file)
HfWriteUnmatched ==
    /\ hf_pc = "unmatched"
    /\ hf_txt' = unmatched_originals(hf_sections)
    /\ hf_pc' = "done"
    /\ UNCHANGED <<global_remove_prefixes, hf_txt_in, hf_k, hf_sections, hf_disk,
                   hf_file, hf_rows, hf_row, hf_updated, hf_prompts, hf_applied>>
    /\ UNCHANGED not_hf_vars

NextHfParse == HfParseSection \/ HfParseSectionAsk \/ HfParseReturn

NextHf ==
    \/ HfParseSection
    \/ HfParseSectionAsk
    \/ HfParseReturn
    \/ HfLoadFile
    \/ HfUpdateRow
    \/ HfFileDone
    \/ HfUpdateReturn
    \/ HfWriteUnmatched

SpecHfParse == InitHfParse /\ [][NextHfParse]_vars

SpecHf == InitHf /\ [][NextHf]_vars

----------------------------------------------------------------------------
(* C24 *)

\* the part of a line after its first colon
AfterColon(l) ==
    LET p == CHOOSE x \in 1..Len(l) :
                l[x] = ":" /\ \A y \in 1..(x - 1) : l[y] # ":"
    IN  SubSeq(l, p + 1, Len(l))

\* the first line of the text starts with a name and a colon, alone on the
\* line or followed by whitespace
HasPrefix(t) ==
    /\ splitlines(t) # <<>>
    /\ LET l == splitlines(t)[1]
       IN  \E p \in 2..Len(l) :
              /\ l[p] = ":"
              /\ \A q \in 1..(p - 1) : l[q] # ":"
              /\ p = Len(l) \/ l[p + 1] \in Whitespace

\* the text without its prefix: without the first line when the prefix
\* is all of it, else without the name, the colon and the whitespace after
WithoutPrefix(t) ==
    LET ls   == splitlines(t)
        rest == lstrip(AfterColon(ls[1]))
    IN  IF rest = <<>> THEN join(Tail(ls))
        ELSE join([ls EXCEPT ![1] = rest])

\* the sections of the TXT file that have been parsed so far
ParsedInputs == SelectSeq(SubSeq(hf_txt_in, 1, hf_k), LAMBDA sec : ~sec.skip)

\* every parsed section with a prefix was treated as the stored decision says
DecisionAppliedToAll ==
    /\ Len(hf_sections) = Len(ParsedInputs)
    /\ \A n \in 1..Len(ParsedInputs) :
          HasPrefix(ParsedInputs[n].extracted) =>
             /\ global_remove_prefixes # "None"
             /\ hf_sections[n].english_text =
                  IF global_remove_prefixes = "True"
                  THEN WithoutPrefix(ParsedInputs[n].extracted)
                  ELSE join(splitlines(ParsedInputs[n].extracted))

\* the prompt is shown only while the decision is unset, and a decision
\* that is set stays
AskOnlyWhileUnset ==
    /\ hf_prompts' # hf_prompts =>
          /\ global_remove_prefixes = "None"
          /\ global_remove_prefixes' # "None"
          /\ hf_prompts' = hf_prompts + 1
    /\ global_remove_prefixes # "None" =>
          global_remove_prefixes' = global_remove_prefixes

\* C24: within one run the yes/no prompt is shown at most once, and only
\* while the decision is unset; once set the decision never changes, and
\* every section that has a prefix is treated as the decision says.
C24_PromptOnceDecisionKept ==
    /\ [](hf_prompts <= 1 /\ DecisionAppliedToAll)
    /\ [][AskOnlyWhileUnset]_vars

\* two sections with a prefix, "N:\nx" and "N: x": one prompt, answered
\* yes, and both came out as "x"
C24_Witness ==
    /\ hf_pc = "update"
    /\ Len(hf_txt_in) = 2
    /\ hf_txt_in[1].extracted = <<"N", ":", "\n", "x">>
    /\ hf_txt_in[2].extracted = HfLeadText
    /\ hf_prompts = 1
    /\ global_remove_prefixes = "True"
    /\ Len(hf_sections) = 2
    /\ hf_sections[1].english_text = <<"x">>
    /\ hf_sections[2].english_text = <<"x">>

----------------------------------------------------------------------------
(* C26 *)

\* the indices of the sections whose matched flag is still false
Unmatched == {n \in 1..Len(hf_sections) : ~hf_sections[n].matched}

\* every update is of another section and of another row, and the matched
\* sections are the ones that were applied
AppliedOnce ==
    /\ \A a, b \in 1..Len(hf_applied) :
          a # b => /\ hf_applied[a][1] # hf_applied[b][1]
                   /\ <<hf_applied[a][2], hf_applied[a][3]>> #
                         <<hf_applied[b][2], hf_applied[b][3]>>
    /\ {hf_applied[a][1] : a \in 1..Len(hf_applied)} =
          {n \in 1..Len(hf_sections) : hf_sections[n].matched}

\* after write_unmatched the TXT file holds the unmatched sections and no
\* other, in the order of the parsed list; the updated rows are on disk
\* with the text of their section
UnmatchedLeftInOrder ==
    hf_pc = "done" =>
       /\ Len(hf_txt) = Cardinality(Unmatched)
       /\ \A n \in Unmatched :
             hf_txt[Cardinality({m \in Unmatched : m <= n})] = hf_sections[n].original
       /\ \A a \in 1..Len(hf_applied) :
             col(hf_disk[hf_applied[a][2]][hf_applied[a][3]], 3) =
                hf_sections[hf_applied[a][1]].english_text

\* a matched flag is never taken back, and a step sets at most one
MatchedNeverReset ==
    hf_pc # "parse" =>
       /\ Len(hf_sections') = Len(hf_sections)
       /\ \A n \in 1..Len(hf_sections) :
             hf_sections[n].matched => hf_sections'[n].matched
       /\ Cardinality({n \in 1..Len(hf_sections) :
             hf_sections'[n].matched /\ ~hf_sections[n].matched}) <= 1

\* C26: each parsed section is applied to at most one CSV row across all
\* files (its matched flag goes from false to true at most once and never
\* back), each row receives at most one section's text, and write_unmatched
\* leaves in the TXT file exactly the sections whose matched flag is still
\* false, in original order.
C26_SectionsAppliedOnceRestKept ==
    /\ [](AppliedOnce /\ UnmatchedLeftInOrder)
    /\ [][MatchedNeverReset]_vars

\* two rows of A.csv ask for the same target: the second section went to
\* the first of them, the other row kept its text, and the first section,
\* asked for by no row, is what the TXT file holds
C26_Witness ==
    /\ hf_pc = "done"
    /\ Len(hf_sections) = 2
    /\ hf_sections[1].read_index = <<"1">>
    /\ hf_sections[2].read_index = <<"0">>
    /\ hf_applied = <<<<2, "A.csv", 1>>>>
    /\ Len(hf_disk["A.csv"]) = 2
    /\ col(hf_disk["A.csv"][1], 3) = hf_sections[2].english_text
    /\ hf_disk["A.csv"][2] = HfRowPadded
    /\ hf_txt = <<hf_sections[1].original>>
    /\ hf_txt = <<<<"s1">>>>

----------------------------------------------------------------------------
(* Part 5: English/generate_gmd.py, merge_splits *)

MaxSplits == 2
MaxSplitRows == 2

\* what safe_read_text returns for a split: its rows, or None after three
\* failed attempts
NoContent == [read |-> FALSE, rows |-> <<>>]

GmdRowPool == {"r1", "r2"}

GmdContents ==
    {NoContent} \cup
    {[read |-> TRUE, rows |-> r] :
        r \in UNION {[1..n -> GmdRowPool] : n \in 1..MaxSplitRows}}

GmdHeader == "#Index,Key,MsgJp,MsgEn,GmdPath,ArcPath,ArcName,ReadIndex"

\* row_count_read = len(content.split("\n"))
row_count_read(content) == Len(content.rows)

\* row_count_written = len(check_file.read().splitlines()): the rows that
\* a second handle on gmd.csv sees
row_count_written(out, buffered) == Len(out)

\* if row_count_written < written_entries + row_count_read
mismatch(out, buffered, entries, content) ==
    row_count_written(out, buffered) < entries + row_count_read(content)

\* merge_splits has sorted the splits and opened gmd.csv for writing; the
\* header row is written to f
InitGmd ==
    /\ gmd_pc = "loop"
    /\ gmd_splits \in UNION {[1..n -> GmdContents] : n \in 1..MaxSplits}
    /\ gmd_k = 1
    /\ \E flushed \in BOOLEAN :
          /\ gmd_out = IF flushed THEN <<GmdHeader>> ELSE <<>>
          /\ gmd_buffered = IF flushed THEN <<>> ELSE <<GmdHeader>>
    /\ written_entries = 0
    /\ gmd_writes = <<>>
    /\ gmd_warned = {}
    /\ AllIdle
    /\ HfIdle
    /\ GuiIdle

\* an iteration for a split that could not be read: continue
GmdSkipUnread ==
    /\ gmd_pc = "loop"
    /\ gmd_k <= Len(gmd_splits)
    /\ ~gmd_splits[gmd_k].read
    /\ gmd_k' = gmd_k + 1
    /\ UNCHANGED <<gmd_pc, gmd_splits, gmd_buffered, gmd_out, written_entries,
                   gmd_writes, gmd_warned>>
    /\ UNCHANGED not_gmd_vars

\* an iteration for a split that was read: f.write(content + "\n"), of
\* which the file object passes on to the file what it does not keep in
\* its buffer; then the row count of gmd.csv is compared
GmdWriteSplit ==
    /\ gmd_pc = "loop"
    /\ gmd_k <= Len(gmd_splits)
    /\ gmd_splits[gmd_k].read
    /\ LET content == gmd_splits[gmd_k]
           pending == gmd_buffered \o content.rows
       IN  \E n \in 0..Len(pending) :
              /\ gmd_out' = gmd_out \o SubSeq(pending, 1, n)
              /\ gmd_buffered' = SubSeq(pending, n + 1, Len(pending))
              /\ IF mismatch(gmd_out', gmd_buffered', written_entries, content)
                 THEN /\ gmd_warned' = gmd_warned \cup {gmd_k}
                      /\ UNCHANGED written_entries
                 ELSE /\ written_entries' = written_entries + row_count_read(content)
                      /\ UNCHANGED gmd_warned
    /\ gmd_writes' = Append(gmd_writes, gmd_k)
    /\ gmd_k' = gmd_k + 1
    /\ UNCHANGED <<gmd_pc, gmd_splits>>
    /\ UNCHANGED not_gmd_vars

\* the with block ends: f is closed and its buffer written out
GmdClose ==
    /\ gmd_pc = "loop"
    /\ gmd_k > Len(gmd_splits)
    /\ gmd_out' = gmd_out \o gmd_buffered
    /\ gmd_buffered' = <<>>
    /\ gmd_pc' = "closed"
    /\ UNCHANGED <<gmd_splits, gmd_k, written_entries, gmd_writes, gmd_warned>>
    /\ UNCHANGED not_gmd_vars

NextGmd == GmdSkipUnread \/ GmdWriteSplit \/ GmdClose

SpecGmd == InitGmd /\ [][NextGmd]_vars

----------------------------------------------------------------------------
(* C25 *)

\* how often split k was written
TimesWritten(k) == Cardinality({n \in 1..Len(gmd_writes) : gmd_writes[n] = k})

\* C25 as stated: when the row count read back after writing a split is
\* lower than expected, that split is written again before the loop goes
\* on to the next split (or ends).
C25_MismatchedSplitWrittenAgain ==
    \A k \in gmd_warned : (gmd_k > k \/ gmd_pc = "closed") => TimesWritten(k) >= 2

----------------------------------------------------------------------------
(* Part 6: Tools/SpeakerFiller.py, CSVProcessorApp *)

MaxRuns == 2
MaxSelections == 2

\* the lists a selection dialog can produce
GuiFileLists == {<<>>, <<"A.csv">>, <<"B.csv", "A.csv">>}

message(type, content) == [type |-> type, content |-> content]

\* the lines select_csv_files writes with self.log: a heading and the files
lines_logged_for_files(files) == 1 + Len(files)

\* the lines select_csv_folder writes with self.log: two headings and the
\* files
lines_logged_for_folder(found_files) == 2 + Len(found_files)

\* threading.Thread(target=self.process_all_files, daemon=True).start()
new_worker == [pc |-> "spawned", files |-> <<>>, index |-> 0, done |-> <<>>]

\* faulty variant: the Run button is left as it is
button_after_start_unchanged(state) == state

\* self.process_button.config(state="disabled")
button_after_start(state) == "disabled"

\* the window is open, nothing selected; load_last_archive_folder may have
\* found a folder
InitGui ==
    /\ process_button = "normal"
    /\ app_csv_files = <<>>
    /\ archive_dir \in BOOLEAN
    /\ workers = <<>>
    /\ pending_after = 0
    /\ app_queue = <<>>
    /\ widget_log = <<>>
    /\ direct_logs = 0
    /\ enqueued = <<>>
    /\ selections = 0
    /\ AllIdle
    /\ HfIdle
    /\ GmdIdle

\* select_csv_files with a non-empty choice
SelectCsvFiles ==
    /\ selections < MaxSelections
    /\ \E files \in GuiFileLists \ {<<>>} :
          /\ app_csv_files' = files
          /\ direct_logs' = direct_logs + lines_logged_for_files(files)
    /\ selections' = selections + 1
    /\ UNCHANGED <<process_button, archive_dir, workers, pending_after, app_queue,
                   widget_log, enqueued>>
    /\ UNCHANGED not_gui_vars

\* select_csv_folder with a folder chosen; it may hold no CSV file
SelectCsvFolder ==
    /\ selections < MaxSelections
    /\ \E found_files \in GuiFileLists :
          /\ app_csv_files' = found_files
          /\ direct_logs' = direct_logs + lines_logged_for_folder(found_files)
    /\ selections' = selections + 1
    /\ UNCHANGED <<process_button, archive_dir, workers, pending_after, app_queue,
                   widget_log, enqueued>>
    /\ UNCHANGED not_gui_vars

\* select_archive_directory with a directory chosen
SelectArchiveDirectory ==
    /\ selections < MaxSelections
    /\ archive_dir' = TRUE
    /\ direct_logs' = direct_logs + 1
    /\ selections' = selections + 1
    /\ UNCHANGED <<process_button, app_csv_files, workers, pending_after, app_queue,
                   widget_log, enqueued>>
    /\ UNCHANGED not_gui_vars

\* start_processing, the command of the Run button: a disabled button does
\* not run its command; without files or archive directory an error box is
\* shown and nothing else happens
StartProcessing ==
    /\ process_button = "normal"
    /\ Len(workers) < MaxRuns
    /\ IF app_csv_files = <<>> \/ ~archive_dir
       THEN UNCHANGED <<process_button, workers>>
       ELSE /\ process_button' = button_after_start(process_button)
            /\ workers' = Append(workers, new_worker)
    /\ UNCHANGED <<app_csv_files, archive_dir, pending_after, app_queue, widget_log,
                   direct_logs, enqueued, selections>>
    /\ UNCHANGED not_gui_vars

\* the put of one or more messages by a worker
put(msgs) ==
    /\ app_queue' = app_queue \o msgs
    /\ enqueued' = enqueued \o msgs

\* process_all_files begins: total_files = len(self.csv_files) and the
\* iteration over self.csv_files is set up
WorkerBegin(w) ==
    /\ workers[w].pc = "spawned"
    /\ workers' = [workers EXCEPT ![w].pc = "loop", ![w].files = app_csv_files]
    /\ UNCHANGED <<process_button, app_csv_files, archive_dir, pending_after,
                   app_queue, widget_log, direct_logs, enqueued, selections>>
    /\ UNCHANGED not_gui_vars

\* self.ui_queue.put(("log", f"Starting processing for {csv_file}..."))
WorkerStartFile(w) ==
    /\ workers[w].pc = "loop"
    /\ workers[w].index < Len(workers[w].files)
    /\ put(<<message("log", <<"Starting processing for",
                              workers[w].files[workers[w].index + 1]>>)>>)
    /\ workers' = [workers EXCEPT ![w].pc = "file"]
    /\ UNCHANGED <<process_button, app_csv_files, archive_dir, pending_after,
                   widget_log, direct_logs, selections>>
    /\ UNCHANGED not_gui_vars

\* process_single_csv(csv_file, ...): its first and its last message
WorkerProcessSingleCsv(w) ==
    /\ workers[w].pc = "file"
    /\ LET csv_file == workers[w].files[workers[w].index + 1]
       IN  /\ put(<<message("current_file", <<csv_file>>),
                    message("file_progress", <<"100">>)>>)
           /\ workers' = [workers EXCEPT ![w].pc = "loop",
                                         ![w].index = @ + 1,
                                         ![w].done = Append(@, csv_file)]
    /\ UNCHANGED <<process_button, app_csv_files, archive_dir, pending_after,
                   widget_log, direct_logs, selections>>
    /\ UNCHANGED not_gui_vars

\* self.ui_queue.put(("log", "All CSV files have been processed."))
WorkerAllDone(w) ==
    /\ workers[w].pc = "loop"
    /\ workers[w].index >= Len(workers[w].files)
    /\ put(<<message("log", <<"All CSV files have been processed.">>)>>)
    /\ workers' = [workers EXCEPT ![w].pc = "schedule"]
    /\ UNCHANGED <<process_button, app_csv_files, archive_dir, pending_after,
                   widget_log, direct_logs, selections>>
    /\ UNCHANGED not_gui_vars

\* self.master.after(0, lambda: self.process_button.config(state="normal"))
WorkerScheduleEnable(w) ==
    /\ workers[w].pc = "schedule"
    /\ pending_after' = pending_after + 1
    /\ workers' = [workers EXCEPT ![w].pc = "exit"]
    /\ UNCHANGED <<process_button, app_csv_files, archive_dir, app_queue, widget_log,
                   direct_logs, enqueued, selections>>
    /\ UNCHANGED not_gui_vars

\* process_all_files returns and the thread ends
WorkerExit(w) ==
    /\ workers[w].pc = "exit"
    /\ workers' = [workers EXCEPT ![w].pc = "ended"]
    /\ UNCHANGED <<process_button, app_csv_files, archive_dir, pending_after,
                   app_queue, widget_log, direct_logs, enqueued, selections>>
    /\ UNCHANGED not_gui_vars

\* the main loop runs the scheduled lambda
EnableButton ==
    /\ pending_after > 0
    /\ process_button' = "normal"
    /\ pending_after' = pending_after - 1
    /\ UNCHANGED <<app_csv_files, archive_dir, workers, app_queue, widget_log,
                   direct_logs, enqueued, selections>>
    /\ UNCHANGED not_gui_vars

\* poll_ui_queue: one get_nowait and the widget update for the message
PollUiQueue ==
    /\ app_queue # <<>>
    /\ widget_log' = Append(widget_log, Head(app_queue))
    /\ app_queue' = Tail(app_queue)
    /\ UNCHANGED <<process_button, app_csv_files, archive_dir, workers, pending_after,
                   direct_logs, enqueued, selections>>
    /\ UNCHANGED not_gui_vars

NextGui ==
    \/ SelectCsvFiles
    \/ SelectCsvFolder
    \/ SelectArchiveDirectory
    \/ StartProcessing
    \/ \E w \in 1..Len(workers) :
          \/ WorkerBegin(w)
          \/ WorkerStartFile(w)
          \/ WorkerProcessSingleCsv(w)
          \/ WorkerAllDone(w)
          \/ WorkerScheduleEnable(w)
          \/ WorkerExit(w)
    \/ EnableButton
    \/ PollUiQueue

SpecGui == InitGui /\ [][NextGui]_vars

----------------------------------------------------------------------------
(* C30 *)

\* the worker threads that exist: started and not yet ended
Existing == {w \in 1..Len(workers) : workers[w].pc # "ended"}

\* the worker threads that still have a file to process or a message to
\* put, or have not yet asked for the Run button to be enabled again
Processing ==
    {w \in 1..Len(workers) : workers[w].pc \in {"spawned", "loop", "file", "schedule"}}

\* each worker has processed the first files of its list, in list order
FilesInListOrder ==
    \A w \in 1..Len(workers) :
        /\ workers[w].index <= Len(workers[w].files)
        /\ workers[w].done = SubSeq(workers[w].files, 1, workers[w].index)

\* what the widgets were given from the queue, followed by what is still
\* in the queue, is what the workers put, in the order they put it
ShownInPutOrder == widget_log \o app_queue = enqueued

\* C30 as stated: at most one worker thread exists at any time, the Run
\* button is disabled until the worker has processed every file, files are
\* processed in list order, and every log or progress message reaches the
\* widgets through the queue only, in the order it was put.
C30_OneWorkerExistsAllThroughQueue ==
    /\ Cardinality(Existing) <= 1
    /\ Processing # {} => process_button = "disabled"
    /\ FilesInListOrder
    /\ direct_logs = 0
    /\ ShownInPutOrder

\* C30: at most one worker thread is processing at any time (a worker that
\* has put its last message and scheduled the enabling of the Run button
\* may still exist when the next one is started); the Run button is
\* disabled as long as a worker is processing; each worker processes the
\* files of its list one at a time in list order; every message a worker
\* produces reaches the widgets through the queue only, polled on the main
\* thread, in the order the workers put them.
C30_OneWorkerProcessingWorkerMessagesInOrder ==
    /\ Cardinality(Processing) <= 1
    /\ Processing # {} => process_button = "disabled"
    /\ FilesInListOrder
    /\ ShownInPutOrder
    /\ \A w \in 1..Len(workers) :
          workers[w].pc = "file" => \A v \in 1..Len(workers) : v # w => workers[v].pc # "file"

\* a second worker is at its first file while the first one, done with
\* B.csv and A.csv in that order, has not ended yet; the selection was
\* logged directly and part of the workers' messages has been shown
C30_Witness ==
    /\ Len(workers) = 2
    /\ workers[1].pc = "exit"
    /\ workers[1].done = <<"B.csv", "A.csv">>
    /\ workers[2].pc = "file"
    /\ process_button = "disabled"
    /\ direct_logs > 0
    /\ Len(widget_log) >= 7
    /\ app_queue # <<>>
    /\ widget_log \o app_queue = enqueued

====
